---- MODULE Spec2Model ----
(***************************************************************************)
(* Verification model of the AMD1-1 lead-enrichment backend.               *)
(*                                                                         *)
(* Part I   executive_review_service.py : content validator, fallback,     *)
(*          the generate -> validate -> retry -> fallback loop.            *)
(* Part II  rad_orchestrator.py : two-phase source fetch, profile          *)
(*          resolution, data-quality score, batch enrichment.              *)
(* Part III llm_service.py : the retry loop of generate_personalization.   *)
(* Part IV  context_inference_service.py : the five rule cascades and the  *)
(*          confidence score.                                              *)
(* Part V   supabase_client.py : the finalize_data table (SpecStore), and  *)
(*          the news fetch in front of the news cache (SpecNews).          *)
(* The pure functions are also called on their own, on inputs drawn from   *)
(* bounded sets (SpecFn).                                                  *)
(*                                                                         *)
(* Strings that the code only measures or searches are represented by      *)
(* what the code reads off them: a text is a record of its len(), its      *)
(* len(split()), the banned phrases/characters it contains, how often it   *)
(* contains the subject company's name (co) or the curated example's       *)
(* company name (ex), and which personalization keywords occur in its      *)
(* lower-cased form (kws).  Strings that the code transforms (industry     *)
(* names, employee ranges, domains) are tuples of their characters.        *)
(***************************************************************************)
EXTENDS Integers, Sequences, FiniteSets, TLC

(***************************************************************************)
(* PART I : executive_review_service.py                                    *)
(***************************************************************************)

\* A text without banned content and without the subject company's name.
Text(c, w, ex, k) ==
    [chars |-> c, words |-> w, bad |-> {}, co |-> 0, ex |-> ex, kws |-> k]

\* The empty string "".
EmptyText == Text(0, 0, 0, {})

FIELD_SPECS ==
    [ headline |->
        [min_chars |-> 20, max_chars |-> 80, min_words |-> 4, max_words |-> 12],
      description |->
        [min_chars |-> 150, max_chars |-> 400, min_words |-> 25, max_words |-> 65],
      rec_title |->
        [min_chars |-> 20, max_chars |-> 80, min_words |-> 4, max_words |-> 12],
      rec_description |->
        [min_chars |-> 200, max_chars |-> 550, min_words |-> 35, max_words |-> 90],
      executive_summary |->
        [min_chars |-> 200, max_chars |-> 600, min_words |-> 35, max_words |-> 90],
      case_study_relevance |->
        [min_chars |-> 150, max_chars |-> 500, min_words |-> 25, max_words |-> 80] ]

\* "phrase" stands for any entry of EXEC_REVIEW_BANNED_PHRASES occurring in
\* the lower-cased text; the other marks are the characters themselves.
BANNED_CHARACTERS == {"em_dash", "en_dash", "exclamation", "colon"}

BANNED_IN_HEADLINES == {"colon"}

\* f["field"] of a failure: "advantages[0].headline" is
\* [section |-> "advantages", idx |-> 0, key |-> "headline"]; a top-level
\* field has idx -1; f["field"].split("[")[0] is the section component.
FieldPath(section, idx, key) == [section |-> section, idx |-> idx, key |-> key]

Failure(field_path, reason) == [field |-> field_path, reason |-> reason]

FailIf(cond, field_path, reason) ==
    IF cond THEN {Failure(field_path, reason)} ELSE {}

_validate_field(value, field_path, spec, is_headline) ==
    IF value.chars = 0
    THEN {Failure(field_path, "Empty value")}
    ELSE FailIf(value.chars < spec.min_chars, field_path, "Below min chars")
         \cup FailIf(value.chars > spec.max_chars, field_path, "Exceeds max chars")
         \cup FailIf(value.words < spec.min_words, field_path, "Below min words")
         \cup FailIf(value.words > spec.max_words, field_path, "Exceeds max words")
         \cup FailIf("phrase" \in value.bad, field_path, "Contains banned phrase")
         \cup UNION { FailIf(char \in value.bad /\ ~(char = "colon" /\ ~is_headline),
                             field_path, "Contains banned character")
                      : char \in BANNED_CHARACTERS }
         \cup UNION { FailIf(is_headline /\ char \in value.bad
                                /\ char \notin BANNED_CHARACTERS,
                             field_path, "Headline contains banned character")
                      : char \in BANNED_IN_HEADLINES }

\* Keyword tables: _extract_keywords lower-cases the phrase, splits it on
\* whitespace and drops stop words and words of length <= 2.
_extract_keywords(phrase) ==
    CASE phrase = "Reducing cost" -> {"reducing", "cost"}
      [] phrase = "Improving workload performance" ->
             {"improving", "workload", "performance"}
      [] phrase = "Legacy systems" -> {"legacy", "systems"}
      [] phrase = "Skills gap" -> {"skills", "gap"}
      [] phrase = "Healthcare" -> {"healthcare"}
      [] phrase = "Manufacturing" -> {"manufacturing"}
      [] OTHER -> {}

ItemSections == {"advantages", "risks", "recommendations"}

\* An item that is not a dict (the model returned a bare string in the
\* array): item.get(...) raises AttributeError.
IsDict(item) == item.type = "dict"

Item(head_key, head, description) ==
    IF head_key = "title"
    THEN [type |-> "dict", title |-> head, description |-> description]
    ELSE [type |-> "dict", headline |-> head, description |-> description]

StrItem == [type |-> "str"]

\* validate_executive_review_content raises when an item is not a dict.
ValidateRaises(content) ==
    \E section_key \in ItemSections :
        \E i \in 1..Len(content[section_key]) : ~IsDict(content[section_key][i])

\* The per-field part of the validator (lines 264-330): character and word
\* bounds, banned phrases, banned characters.
FieldFailures(content) ==
    (IF content.executive_summary.chars # 0
     THEN _validate_field(content.executive_summary,
                          FieldPath("executive_summary", -1, ""),
                          FIELD_SPECS.executive_summary, FALSE)
     ELSE {})
    \cup UNION { _validate_field(content.advantages[i].headline,
                                 FieldPath("advantages", i - 1, "headline"),
                                 FIELD_SPECS.headline, TRUE)
                 \cup _validate_field(content.advantages[i].description,
                                      FieldPath("advantages", i - 1, "description"),
                                      FIELD_SPECS.description, FALSE)
                 : i \in 1..Len(content.advantages) }
    \cup UNION { _validate_field(content.risks[i].headline,
                                 FieldPath("risks", i - 1, "headline"),
                                 FIELD_SPECS.headline, TRUE)
                 \cup _validate_field(content.risks[i].description,
                                      FieldPath("risks", i - 1, "description"),
                                      FIELD_SPECS.description, FALSE)
                 : i \in 1..Len(content.risks) }
    \cup UNION { _validate_field(content.recommendations[i].title,
                                 FieldPath("recommendations", i - 1, "title"),
                                 FIELD_SPECS.rec_title, TRUE)
                 \cup _validate_field(content.recommendations[i].description,
                                      FieldPath("recommendations", i - 1, "description"),
                                      FIELD_SPECS.rec_description, FALSE)
                 : i \in 1..Len(content.recommendations) }
    \cup (IF content.case_study_relevance.chars # 0
          THEN _validate_field(content.case_study_relevance,
                               FieldPath("case_study_relevance", -1, ""),
                               FIELD_SPECS.case_study_relevance, FALSE)
          ELSE {})

\* The text fields of an item (item.values() restricted to strings).
ItemTexts(item) ==
    IF "title" \in DOMAIN item
    THEN {item.title, item.description}
    ELSE {item.headline, item.description}

\* The company-name rule with the loop skipping the first two items.
CompanyNameFailuresSkipTwo(content) ==
    IF content.company_name.chars > 2
    THEN UNION { UNION { FailIf(\E field_val \in ItemTexts(content[section_key][idx + 1]) :
                                    field_val.co > 0,
                                FieldPath(section_key, idx, ""),
                                "Company name appears in non-first item")
                         : idx \in 2..(Len(content[section_key]) - 1) }
                 : section_key \in ItemSections }
    ELSE {}

\* Lines 332-348: the company name may appear only in the first item; the
\* check is skipped for a name of at most two characters.  idx is the
\* 0-based index of the item.
CompanyNameFailures(content) ==
    IF content.company_name.chars > 2
    THEN UNION { UNION { FailIf(\E field_val \in ItemTexts(content[section_key][idx + 1]) :
                                    field_val.co > 0,
                                FieldPath(section_key, idx, ""),
                                "Company name appears in non-first item")
                         : idx \in 1..(Len(content[section_key]) - 1) }
                 : section_key \in ItemSections }
    ELSE {}

\* Lines 350-393: the blocking personalization checks; each is skipped when
\* its phrase is "" (the default of the keyword arguments).
PersonalizationFailures(content, priority, challenge, industry) ==
    FailIf(/\ priority # ""
           /\ Len(content.advantages) >= 1
           /\ (content.advantages[1].headline.kws
                 \cup content.advantages[1].description.kws)
                \cap _extract_keywords(priority) = {},
           FieldPath("advantages", 0, ""),
           "First advantage does not reference the stated priority")
    \cup FailIf(/\ challenge # ""
                /\ Len(content.risks) >= 1
                /\ (content.risks[1].headline.kws
                      \cup content.risks[1].description.kws)
                     \cap _extract_keywords(challenge) = {},
                FieldPath("risks", 0, ""),
                "First risk does not reference the stated challenge")
    \cup FailIf(/\ (industry # "" \/ challenge # "")
                /\ content.case_study_relevance.chars # 0
                /\ (_extract_keywords(industry) \cup _extract_keywords(challenge)) # {}
                /\ content.case_study_relevance.kws
                     \cap (_extract_keywords(industry) \cup _extract_keywords(challenge))
                   = {},
                FieldPath("case_study_relevance", -1, ""),
                "Case study relevance does not mention industry or challenge")

\* validation["failures"] of validate_executive_review_content; the caller
\* reads "passed" as failures = {}.  Defined for content on which the
\* validator does not raise.
validate_executive_review_content(content, priority, challenge, industry) ==
    FieldFailures(content)
    \cup CompanyNameFailures(content)
    \cup PersonalizationFailures(content, priority, challenge, industry)

\* A company name as the code uses it: len(), len(split()) and the banned
\* marks the name itself carries ("Yahoo!" carries an exclamation mark).
Company(name, chars, words, bad) ==
    [name |-> name, chars |-> chars, words |-> words, bad |-> bad]

\* str.lower() on the industry, priority and challenge phrases in use.
Lower(s) ==
    CASE s = "AEC" -> "aec"
      [] s = "Consumer Goods" -> "consumer goods"
      [] s = "Retail" -> "retail"
      [] s = "Manufacturing" -> "manufacturing"
      [] s = "Healthcare" -> "healthcare"
      [] s = "Financial Services" -> "financial services"
      [] s = "Reducing cost" -> "reducing cost"
      [] s = "Improving workload performance" -> "improving workload performance"
      [] s = "Preparing for AI adoption" -> "preparing for ai adoption"
      [] s = "Legacy systems" -> "legacy systems"
      [] s = "Resource constraints" -> "resource constraints"
      [] s = "Integration friction" -> "integration friction"
      [] s = "Skills gap" -> "skills gap"
      [] s = "Data governance and compliance" -> "data governance and compliance"
      [] OTHER -> s

\* industry_groups of fallback_to_example (lines 634-641), by position; the
\* value is the set of groups one of whose terms is a substring of the
\* lower-cased industry.
industry_groups(lowered) ==
    CASE lowered = "healthcare" -> {1}
      [] lowered = "financial services" -> {2}
      [] lowered = "retail" -> {3}
      [] lowered = "consumer goods" -> {3}
      [] lowered = "manufacturing" -> {4}
      [] lowered = "aec" -> {4}
      [] OTHER -> {}

FEW_SHOT_EXAMPLES_POOL ==
    [ Observer |-> <<
      [ profile |-> [ company |-> Company("AECOM", 5, 1, {}),
                      industry |-> "AEC",
                      priority |-> "Reducing cost",
                      challenge |-> "Legacy systems" ],
        output |-> [
          executive_summary |-> Text(317, 41, 1, {"cost", "legacy", "systems", "workload"}),
          advantages |-> <<
            Item("headline", Text(49, 7, 0, {"cost", "legacy", "reducing"}),
                 Text(335, 44, 1, {"cost", "reducing"})),
            Item("headline", Text(64, 7, 0, {}),
                 Text(342, 44, 0, {"cost"}))
          >>,
          risks |-> <<
            Item("headline", Text(55, 8, 0, {"cost", "legacy"}),
                 Text(342, 46, 0, {"cost", "legacy", "performance", "systems"})),
            Item("headline", Text(49, 7, 0, {"cost", "gap"}),
                 Text(318, 43, 1, {"systems"}))
          >>,
          recommendations |-> <<
            Item("title", Text(49, 6, 0, {"cost", "legacy", "workload"}),
                 Text(336, 48, 0, {"cost", "improving", "systems", "workload"})),
            Item("title", Text(64, 7, 0, {}),
                 Text(313, 41, 1, {})),
            Item("title", Text(61, 9, 0, {}),
                 Text(325, 43, 0, {"cost", "workload"}))
          >>,
          case_study_relevance |-> Text(427, 53, 2, {"cost", "legacy", "systems"}),
          case_study |-> "Smurfit Westrock" ] ],
      [ profile |-> [ company |-> Company("Allbirds", 8, 1, {}),
                      industry |-> "Consumer Goods",
                      priority |-> "Reducing cost",
                      challenge |-> "Resource constraints" ],
        output |-> [
          executive_summary |-> Text(328, 45, 1, {"cost", "systems"}),
          advantages |-> <<
            Item("headline", Text(57, 7, 0, {"cost", "systems"}),
                 Text(367, 49, 1, {"cost", "improving"})),
            Item("headline", Text(63, 7, 0, {}),
                 Text(313, 41, 0, {"systems"}))
          >>,
          risks |-> <<
            Item("headline", Text(59, 8, 0, {"cost"}),
                 Text(324, 48, 1, {"cost", "legacy"})),
            Item("headline", Text(64, 7, 0, {}),
                 Text(302, 42, 0, {"cost"}))
          >>,
          recommendations |-> <<
            Item("title", Text(59, 8, 0, {"cost", "systems"}),
                 Text(309, 40, 1, {"systems"})),
            Item("title", Text(56, 10, 0, {"workload"}),
                 Text(275, 41, 0, {"systems"})),
            Item("title", Text(63, 8, 0, {}),
                 Text(288, 41, 0, {"cost"}))
          >>,
          case_study_relevance |-> Text(461, 63, 1, {"cost", "systems"}),
          case_study |-> "Smurfit Westrock" ] ]
    >>,
      Challenger |-> <<
      [ profile |-> [ company |-> Company("Target", 6, 1, {}),
                      industry |-> "Retail",
                      priority |-> "Improving workload performance",
                      challenge |-> "Integration friction" ],
        output |-> [
          executive_summary |-> Text(356, 45, 1, {"improving", "performance", "reducing", "systems", "workload"}),
          advantages |-> <<
            Item("headline", Text(64, 8, 0, {"performance", "systems"}),
                 Text(353, 41, 1, {"workload"})),
            Item("headline", Text(56, 6, 0, {}),
                 Text(369, 45, 0, {"improving", "performance"}))
          >>,
          risks |-> <<
            Item("headline", Text(56, 6, 0, {}),
                 Text(363, 47, 1, {"performance", "systems"})),
            Item("headline", Text(54, 7, 0, {}),
                 Text(352, 46, 0, {"gap", "improving", "performance"}))
          >>,
          recommendations |-> <<
            Item("title", Text(64, 7, 0, {"performance", "workload"}),
                 Text(344, 43, 1, {"performance", "systems"})),
            Item("title", Text(68, 9, 0, {}),
                 Text(336, 44, 0, {"performance", "systems"})),
            Item("title", Text(68, 8, 0, {}),
                 Text(320, 41, 1, {"performance", "systems"}))
          >>,
          case_study_relevance |-> Text(463, 54, 2, {"performance", "reducing", "systems"}),
          case_study |-> "KT Cloud" ] ],
      [ profile |-> [ company |-> Company("Caterpillar", 11, 1, {}),
                      industry |-> "Manufacturing",
                      priority |-> "Improving workload performance",
                      challenge |-> "Skills gap" ],
        output |-> [
          executive_summary |-> Text(362, 43, 1, {"gap", "improving", "manufacturing", "performance", "skills", "systems", "workload"}),
          advantages |-> <<
            Item("headline", Text(64, 7, 0, {"performance", "workload"}),
                 Text(360, 43, 1, {"cost", "manufacturing", "reducing", "systems"})),
            Item("headline", Text(59, 10, 0, {"reducing", "systems"}),
                 Text(366, 50, 0, {"improving", "manufacturing", "performance", "systems"}))
          >>,
          risks |-> <<
            Item("headline", Text(65, 8, 0, {"legacy"}),
                 Text(397, 50, 1, {"manufacturing", "performance", "systems"})),
            Item("headline", Text(60, 8, 0, {"gap", "skills"}),
                 Text(377, 48, 0, {"manufacturing", "performance", "systems"}))
          >>,
          recommendations |-> <<
            Item("title", Text(62, 7, 0, {"systems"}),
                 Text(346, 47, 1, {"cost", "manufacturing", "workload"})),
            Item("title", Text(52, 7, 0, {}),
                 Text(333, 44, 0, {"manufacturing"})),
            Item("title", Text(65, 10, 0, {"gap", "skills"}),
                 Text(350, 44, 0, {"manufacturing", "skills"}))
          >>,
          case_study_relevance |-> Text(482, 58, 1, {"manufacturing", "performance", "skills", "systems"}),
          case_study |-> "PQR" ] ]
    >>,
      Leader |-> <<
      [ profile |-> [ company |-> Company("HCA Healthcare", 14, 2, {}),
                      industry |-> "Healthcare",
                      priority |-> "Preparing for AI adoption",
                      challenge |-> "Data governance and compliance" ],
        output |-> [
          executive_summary |-> Text(384, 49, 1, {"healthcare", "systems"}),
          advantages |-> <<
            Item("headline", Text(66, 8, 0, {"workload"}),
                 Text(384, 49, 0, {"cost", "performance"})),
            Item("headline", Text(60, 6, 0, {}),
                 Text(369, 52, 0, {"systems"}))
          >>,
          risks |-> <<
            Item("headline", Text(60, 9, 0, {"gap"}),
                 Text(370, 49, 0, {"healthcare", "systems"})),
            Item("headline", Text(61, 7, 0, {}),
                 Text(357, 45, 0, {"healthcare"}))
          >>,
          recommendations |-> <<
            Item("title", Text(62, 9, 0, {"systems"}),
                 Text(381, 51, 0, {"systems"})),
            Item("title", Text(60, 8, 0, {}),
                 Text(351, 53, 0, {"reducing"})),
            Item("title", Text(65, 7, 0, {"performance"}),
                 Text(374, 48, 0, {"workload"}))
          >>,
          case_study_relevance |-> Text(483, 66, 0, {"healthcare", "systems"}),
          case_study |-> "PQR" ] ],
      [ profile |-> [ company |-> Company("JPMorgan Chase", 14, 2, {}),
                      industry |-> "Financial Services",
                      priority |-> "Improving workload performance",
                      challenge |-> "Data governance and compliance" ],
        output |-> [
          executive_summary |-> Text(416, 51, 1, {"performance", "systems", "workload"}),
          advantages |-> <<
            Item("headline", Text(73, 7, 0, {"performance"}),
                 Text(392, 46, 1, {"performance"})),
            Item("headline", Text(66, 8, 0, {}),
                 Text(390, 53, 0, {"systems"}))
          >>,
          risks |-> <<
            Item("headline", Text(59, 7, 0, {"performance"}),
                 Text(388, 49, 0, {"performance", "systems"})),
            Item("headline", Text(63, 8, 0, {}),
                 Text(363, 47, 1, {"performance", "systems"}))
          >>,
          recommendations |-> <<
            Item("title", Text(63, 6, 0, {"workload"}),
                 Text(353, 43, 1, {"performance", "systems"})),
            Item("title", Text(67, 7, 0, {}),
                 Text(367, 44, 0, {"performance", "reducing", "systems"})),
            Item("title", Text(60, 9, 0, {}),
                 Text(352, 44, 0, {}))
          >>,
          case_study_relevance |-> Text(455, 54, 1, {"performance"}),
          case_study |-> "PQR" ] ]
    >> ]

\* FEW_SHOT_EXAMPLES: the first example of each stage.
FEW_SHOT_EXAMPLES ==
    [stage \in DOMAIN FEW_SHOT_EXAMPLES_POOL |-> FEW_SHOT_EXAMPLES_POOL[stage][1]]

\* dict.get(stage, default) on the two example tables.
PoolGet(stage) ==
    IF stage \in DOMAIN FEW_SHOT_EXAMPLES_POOL
    THEN FEW_SHOT_EXAMPLES_POOL[stage]
    ELSE FEW_SHOT_EXAMPLES_POOL["Challenger"]

\* text.replace(original_company, company_name): every occurrence of the
\* example's company name becomes the subject company's name.
_swap_name(text, original_company, company_name) ==
    [text EXCEPT
        !.chars = @ + text.ex * (company_name.chars - original_company.chars),
        !.words = @ + text.ex * (company_name.words - original_company.words),
        !.bad = @ \cup (IF text.ex > 0 THEN company_name.bad ELSE {}),
        !.co = @ + text.ex,
        !.ex = 0]

\* The similarity score of one example in fallback_to_example (lines 643-657).
ExampleScore(example, industry, priority, challenge) ==
    (IF Lower(example.profile.industry) = Lower(industry)
     THEN 3
     ELSE IF industry_groups(Lower(example.profile.industry))
               \cap industry_groups(Lower(industry)) # {}
          THEN 1
          ELSE 0)
    + (IF Lower(example.profile.priority) = Lower(priority) THEN 2 ELSE 0)
    + (IF Lower(example.profile.challenge) = Lower(challenge) THEN 2 ELSE 0)

\* The loop keeps the first example with the strictly greatest score.
BestExample(examples, industry, priority, challenge) ==
    LET score(i) == ExampleScore(examples[i], industry, priority, challenge)
        best == CHOOSE i \in 1..Len(examples) :
                    /\ \A j \in 1..Len(examples) : score(j) <= score(i)
                    /\ \A j \in 1..(i - 1) : score(j) < score(i)
    IN  examples[best]

SwapFirstItem(items, keys, original_company, company_name) ==
    IF Len(items) = 0
    THEN items
    ELSE [items EXCEPT ![1] =
            [k \in DOMAIN items[1] |->
                IF k \in keys
                THEN _swap_name(items[1][k], original_company, company_name)
                ELSE items[1][k]]]

fallback_to_example(company_name, stage, industry, priority, challenge) ==
    LET best_example == BestExample(PoolGet(stage), industry, priority, challenge)
        original_company == best_example.profile.company
        output == best_example.output
        swap(text) == _swap_name(text, original_company, company_name)
    IN  [output EXCEPT
            !.executive_summary = swap(@),
            !.advantages = SwapFirstItem(@, {"headline", "description"},
                                         original_company, company_name),
            !.risks = SwapFirstItem(@, {"headline", "description"},
                                    original_company, company_name),
            !.recommendations = SwapFirstItem(@, {"description"},
                                              original_company, company_name),
            !.case_study_relevance = swap(@)]

CASE_STUDIES ==
    [ kt_cloud |-> "KT Cloud Expands AI Power with AMD Instinct Accelerators",
      smurfit_westrock |-> "Smurfit Westrock Saves AWS Costs for Innovation with AMD",
      pqr |-> "PQR Offers Next-Gen IT Services with AMD Pensando DPUs" ]

\* select_case_study with the industry rule tried before the priority rule.
select_case_study_industry_first(stage, priority, industry, challenge) ==
    IF industry \in {"healthcare", "financial_services", "government"}
    THEN CASE_STUDIES.pqr
    ELSE IF priority = "reducing_cost"
    THEN CASE_STUDIES.smurfit_westrock
    ELSE CASE_STUDIES.kt_cloud

\* The name component of select_case_study's result.
select_case_study(stage, priority, industry, challenge) ==
    IF priority = "reducing_cost"
    THEN CASE_STUDIES.smurfit_westrock
    ELSE IF industry \in {"healthcare", "financial_services", "government"}
    THEN CASE_STUDIES.pqr
    ELSE IF /\ challenge \in {"skills_gap", "data_governance"}
            /\ industry \notin {"technology", "telecommunications", "retail"}
    THEN CASE_STUDIES.pqr
    ELSE IF priority \in {"improving_performance", "preparing_ai"}
    THEN CASE_STUDIES.kt_cloud
    ELSE IF stage = "Observer"
    THEN CASE_STUDIES.smurfit_westrock
    ELSE IF stage = "Leader"
    THEN CASE_STUDIES.pqr
    ELSE CASE_STUDIES.kt_cloud

\* swap_in_items of _get_mock_response: the name is swapped in every item.
swap_in_items(items, original_company, company_name) ==
    [i \in 1..Len(items) |->
        [k \in DOMAIN items[i] |->
            IF k = "type"
            THEN items[i][k]
            ELSE _swap_name(items[i][k], original_company, company_name)]]

_get_mock_response(company_name, stage, priority, industry, challenge) ==
    LET example == IF stage \in DOMAIN FEW_SHOT_EXAMPLES
                   THEN FEW_SHOT_EXAMPLES[stage]
                   ELSE FEW_SHOT_EXAMPLES["Challenger"]
        example_company == example.profile.company
        swap_company(text) == _swap_name(text, example_company, company_name)
    IN  [ company_name |-> company_name,
          stage |-> stage,
          executive_summary |-> swap_company(example.output.executive_summary),
          advantages |-> swap_in_items(example.output.advantages,
                                       example_company, company_name),
          risks |-> swap_in_items(example.output.risks,
                                  example_company, company_name),
          recommendations |-> swap_in_items(example.output.recommendations,
                                            example_company, company_name),
          case_study |-> select_case_study(stage, priority, industry, challenge),
          case_study_relevance |->
              swap_company(example.output.case_study_relevance) ]


(***************************************************************************)
(* Inputs of one generate_executive_review call and the behaviours of the  *)
(* language model.                                                         *)
(***************************************************************************)

Companies ==
    { Company("Acme", 4, 1, {}),
      Company("HP", 2, 1, {}),
      Company("Procter & Gamble", 16, 3, {}),
      Company("Yahoo!", 6, 1, {"exclamation"}) }

\* stage, industry, priority and challenge of a request; the last one has
\* no personalization phrases (the validator skips those checks on "").
Profiles ==
    { [stage |-> "Challenger", industry |-> "Manufacturing",
       priority |-> "Improving workload performance",
       challenge |-> "Skills gap"],
      [stage |-> "Observer", industry |-> "Healthcare",
       priority |-> "Reducing cost",
       challenge |-> "Legacy systems"],
      [stage |-> "Leader", industry |-> "", priority |-> "", challenge |-> ""] }

Requests ==
    { [company_name |-> c, stage |-> p.stage, industry |-> p.industry,
       priority |-> p.priority, challenge |-> p.challenge, client |-> hc]
      : c \in Companies, p \in Profiles, hc \in BOOLEAN }

\* A text the model writes: at the lower bounds of its field spec.
LLMText(spec, k, co, bad) ==
    [chars |-> spec.min_chars, words |-> spec.min_words, bad |-> bad,
     co |-> co, ex |-> 0, kws |-> k]

SummaryVariants ==
    { LLMText(FIELD_SPECS.executive_summary, {}, 1, {}),
      [LLMText(FIELD_SPECS.executive_summary, {}, 1, {}) EXCEPT
          !.chars = FIELD_SPECS.executive_summary.min_chars - 1],
      EmptyText }

AdvantagesVariants(req) ==
    LET kw == _extract_keywords(req.priority)
        h_kw == LLMText(FIELD_SPECS.headline, kw, 0, {})
        h_plain == LLMText(FIELD_SPECS.headline, {}, 0, {})
        d_name == LLMText(FIELD_SPECS.description, {}, 1, {})
        d_plain == LLMText(FIELD_SPECS.description, {}, 0, {})
    IN  { <<Item("headline", h_kw, d_name), Item("headline", h_plain, d_plain)>>,
          <<Item("headline", h_plain, d_name), Item("headline", h_plain, d_plain)>>,
          <<Item("headline", h_kw, d_name), Item("headline", h_plain, d_name)>>,
          <<Item("headline", [h_kw EXCEPT !.chars = FIELD_SPECS.headline.max_chars + 1],
                 d_name),
            Item("headline", h_plain, d_plain)>>,
          <<StrItem, StrItem>>,
          << >> }

RisksVariants(req) ==
    LET kw == _extract_keywords(req.challenge)
        h_kw == LLMText(FIELD_SPECS.headline, kw, 0, {})
        h_plain == LLMText(FIELD_SPECS.headline, {}, 0, {})
        d_plain == LLMText(FIELD_SPECS.description, {}, 0, {})
        d_bang == LLMText(FIELD_SPECS.description, {}, 0, {"exclamation"})
    IN  { <<Item("headline", h_kw, d_plain), Item("headline", h_plain, d_plain)>>,
          <<Item("headline", h_plain, d_plain), Item("headline", h_plain, d_bang)>> }

RecommendationsVariants ==
    LET t == LLMText(FIELD_SPECS.rec_title, {}, 0, {})
        t_colon == LLMText(FIELD_SPECS.rec_title, {}, 0, {"colon"})
        d == LLMText(FIELD_SPECS.rec_description, {}, 0, {})
    IN  { <<Item("title", t, d), Item("title", t, d), Item("title", t, d)>>,
          <<Item("title", t_colon, d), Item("title", t, d), Item("title", t, d)>> }

RelevanceVariants(req) ==
    LET kw == _extract_keywords(req.industry) \cup _extract_keywords(req.challenge)
    IN  { LLMText(FIELD_SPECS.case_study_relevance, kw, 0, {}),
          LLMText(FIELD_SPECS.case_study_relevance, {}, 0, {}) }

ContentSections ==
    {"executive_summary", "advantages", "risks", "recommendations",
     "case_study_relevance"}

\* The empty (or omitted) value of a section: "" or [].
EmptyValue(section) ==
    IF section \in {"executive_summary", "case_study_relevance"}
    THEN EmptyText
    ELSE << >>

\* block.input of a tool_use block in which the model writes the given
\* sections; a section it omits reads as the empty value (dict.get default
\* in generate_executive_review, the membership/truthiness test of line
\* 1420 in _retry_failing_fields).
ToolInputs(req, sections) ==
    [ executive_summary :
          IF "executive_summary" \in sections
          THEN SummaryVariants ELSE {EmptyValue("executive_summary")},
      advantages :
          IF "advantages" \in sections
          THEN AdvantagesVariants(req) ELSE {EmptyValue("advantages")},
      risks :
          IF "risks" \in sections
          THEN RisksVariants(req) ELSE {EmptyValue("risks")},
      recommendations :
          IF "recommendations" \in sections
          THEN RecommendationsVariants ELSE {EmptyValue("recommendations")},
      case_study_relevance :
          IF "case_study_relevance" \in sections
          THEN RelevanceVariants(req) ELSE {EmptyValue("case_study_relevance")} ]

\* Python truthiness of a section value: a non-empty string or list.
Truthy(section, value) ==
    IF section \in ItemSections THEN Len(value) > 0 ELSE value.chars > 0

\* max_retries of _retry_failing_fields.
max_retries == 2

\* ======================================================================
\* Part II: rad_orchestrator.py, one enrichment of RADOrchestrator
\* ======================================================================

\* A Python value: t is its type ("none", "str", "int", "bool", "list",
\* "dict"), s the characters of a str, n the number of an int, 1/0 of a
\* bool and the length of a list or dict.  src names the payload the value
\* was read from ("" for a value the code made up itself).
Val(t, s, n, src) == [t |-> t, s |-> s, n |-> n, src |-> src]

None == Val("none", <<>>, 0, "")

\* Python truthiness of a value.
IsTruthy(v) ==
    CASE v.t = "none" -> FALSE
      [] v.t = "str"  -> Len(v.s) > 0
      [] OTHER        -> v.n # 0

\* The ASCII letters and digits that str.lower, str.title and int read.
Alphabet ==
    [lower  |-> <<"a", "b", "c", "d", "e", "f", "g", "h", "i", "j", "k", "l", "m", "n", "o", "p", "q", "r", "s", "t", "u", "v", "w", "x", "y", "z">>,
     upper  |-> <<"A", "B", "C", "D", "E", "F", "G", "H", "I", "J", "K", "L", "M", "N", "O", "P", "Q", "R", "S", "T", "U", "V", "W", "X", "Y", "Z">>,
     digits |-> <<"0", "1", "2", "3", "4", "5", "6", "7", "8", "9">>]

\* str.lower(): an upper-case letter becomes its lower-case letter.
str_lower(cs) ==
    [i \in 1..Len(cs) |->
        IF \E k \in 1..26 : Alphabet.upper[k] = cs[i]
        THEN Alphabet.lower[CHOOSE k \in 1..26 : Alphabet.upper[k] = cs[i]]
        ELSE cs[i]]

\* str.title(): a letter is upper-cased at the start and after a
\* non-letter, and lower-cased after a letter.
str_title(cs) ==
    LET IsAlpha(c) == \E k \in 1..26 : Alphabet.lower[k] = c \/ Alphabet.upper[k] = c
        Upper(c)   == IF \E k \in 1..26 : Alphabet.lower[k] = c
                      THEN Alphabet.upper[CHOOSE k \in 1..26 : Alphabet.lower[k] = c]
                      ELSE c
    IN  [i \in 1..Len(cs) |->
            IF i = 1 \/ ~IsAlpha(cs[i - 1])
            THEN Upper(cs[i])
            ELSE str_lower(<<cs[i]>>)[1]]

\* str.strip() for spaces.
str_strip(cs) ==
    IF \A i \in 1..Len(cs) : cs[i] = " "
    THEN <<>>
    ELSE LET first == CHOOSE i \in 1..Len(cs) :
                          cs[i] # " " /\ \A j \in 1..(i - 1) : cs[j] = " "
             last  == CHOOSE i \in 1..Len(cs) :
                          cs[i] # " " /\ \A j \in (i + 1)..Len(cs) : cs[j] = " "
         IN  SubSeq(cs, first, last)

\* pattern in cs
str_contains(pattern, cs) ==
    \E i \in 0..(Len(cs) - Len(pattern)) :
        \A j \in 1..Len(pattern) : cs[i + j] = pattern[j]

\* cs.replace(old, new) for a one-character old; new is a string.
RECURSIVE str_replace(_, _, _)
str_replace(cs, old, new) ==
    IF cs = <<>> THEN <<>>
    ELSE (IF Head(cs) = old THEN new ELSE <<Head(cs)>>)
         \o str_replace(Tail(cs), old, new)

\* cs.split(sep) for a one-character sep: the sequence of the parts.
RECURSIVE str_split(_, _)
str_split(cs, sep) ==
    IF \A i \in 1..Len(cs) : cs[i] # sep
    THEN <<cs>>
    ELSE LET k == CHOOSE i \in 1..Len(cs) :
                      cs[i] = sep /\ \A j \in 1..(i - 1) : cs[j] # sep
         IN  <<SubSeq(cs, 1, k - 1)>> \o str_split(SubSeq(cs, k + 1, Len(cs)), sep)

\* int(cs) for decimal digits with an optional sign: ok is FALSE where
\* int raises ValueError.
int_of(cs) ==
    LET RECURSIVE value(_, _)
        value(ds, digits) ==
            IF ds = <<>> THEN 0
            ELSE 10 * value(SubSeq(ds, 1, Len(ds) - 1), digits)
                 + (CHOOSE d \in 0..9 : digits[d + 1] = ds[Len(ds)])
        Unsigned(body, digits) ==
            IF body = <<>> \/ \E i \in 1..Len(body) : \A d \in 1..10 : digits[d] # body[i]
            THEN [ok |-> FALSE, n |-> 0]
            ELSE [ok |-> TRUE, n |-> value(body, digits)]
        Negated(r) == [r EXCEPT !.n = 0 - r.n]
    IN  IF cs # <<>> /\ cs[1] = "-" THEN Negated(Unsigned(Tail(cs), Alphabet.digits))
        ELSE IF cs # <<>> /\ cs[1] = "+" THEN Unsigned(Tail(cs), Alphabet.digits)
        ELSE Unsigned(cs, Alphabet.digits)

\* Lines 28-35.
SOURCE_PRIORITY ==
    [apollo |-> 5, zoominfo |-> 4, pdl_company |-> 4, pdl |-> 3, hunter |-> 2, gnews |-> 1]

\* Lines 39-103, in insertion order: <<pattern, canonical name>>.
INDUSTRY_NORMALIZATION ==
    <<
      <<<<"i","n","f","o","r","m","a","t","i","o","n"," ","t","e","c","h","n","o","l","o","g","y">>,
        <<"t","e","c","h","n","o","l","o","g","y">>>>,
      <<<<"s","o","f","t","w","a","r","e">>,
        <<"t","e","c","h","n","o","l","o","g","y">>>>,
      <<<<"i","n","t","e","r","n","e","t">>,
        <<"t","e","c","h","n","o","l","o","g","y">>>>,
      <<<<"c","o","m","p","u","t","e","r">>,
        <<"t","e","c","h","n","o","l","o","g","y">>>>,
      <<<<"s","a","a","s">>,
        <<"t","e","c","h","n","o","l","o","g","y">>>>,
      <<<<"i","t"," ","s","e","r","v","i","c","e","s">>,
        <<"t","e","c","h","n","o","l","o","g","y">>>>,
      <<<<"f","i","n","a","n","c","i","a","l">>,
        <<"f","i","n","a","n","c","i","a","l","_","s","e","r","v","i","c","e","s">>>>,
      <<<<"b","a","n","k","i","n","g">>,
        <<"f","i","n","a","n","c","i","a","l","_","s","e","r","v","i","c","e","s">>>>,
      <<<<"i","n","s","u","r","a","n","c","e">>,
        <<"f","i","n","a","n","c","i","a","l","_","s","e","r","v","i","c","e","s">>>>,
      <<<<"i","n","v","e","s","t","m","e","n","t">>,
        <<"f","i","n","a","n","c","i","a","l","_","s","e","r","v","i","c","e","s">>>>,
      <<<<"c","a","p","i","t","a","l"," ","m","a","r","k","e","t","s">>,
        <<"f","i","n","a","n","c","i","a","l","_","s","e","r","v","i","c","e","s">>>>,
      <<<<"f","i","n","t","e","c","h">>,
        <<"f","i","n","a","n","c","i","a","l","_","s","e","r","v","i","c","e","s">>>>,
      <<<<"h","e","a","l","t","h","c","a","r","e">>,
        <<"h","e","a","l","t","h","c","a","r","e">>>>,
      <<<<"h","e","a","l","t","h"," ","c","a","r","e">>,
        <<"h","e","a","l","t","h","c","a","r","e">>>>,
      <<<<"h","o","s","p","i","t","a","l">>,
        <<"h","e","a","l","t","h","c","a","r","e">>>>,
      <<<<"m","e","d","i","c","a","l">>,
        <<"h","e","a","l","t","h","c","a","r","e">>>>,
      <<<<"p","h","a","r","m","a","c","e","u","t","i","c","a","l">>,
        <<"h","e","a","l","t","h","c","a","r","e">>>>,
      <<<<"p","h","a","r","m","a">>,
        <<"h","e","a","l","t","h","c","a","r","e">>>>,
      <<<<"b","i","o","t","e","c","h">>,
        <<"h","e","a","l","t","h","c","a","r","e">>>>,
      <<<<"l","i","f","e"," ","s","c","i","e","n","c","e">>,
        <<"h","e","a","l","t","h","c","a","r","e">>>>,
      <<<<"m","a","n","u","f","a","c","t","u","r","i","n","g">>,
        <<"m","a","n","u","f","a","c","t","u","r","i","n","g">>>>,
      <<<<"a","u","t","o","m","o","t","i","v","e">>,
        <<"m","a","n","u","f","a","c","t","u","r","i","n","g">>>>,
      <<<<"i","n","d","u","s","t","r","i","a","l">>,
        <<"m","a","n","u","f","a","c","t","u","r","i","n","g">>>>,
      <<<<"a","e","r","o","s","p","a","c","e">>,
        <<"m","a","n","u","f","a","c","t","u","r","i","n","g">>>>,
      <<<<"r","e","t","a","i","l">>,
        <<"r","e","t","a","i","l">>>>,
      <<<<"e","-","c","o","m","m","e","r","c","e">>,
        <<"r","e","t","a","i","l">>>>,
      <<<<"e","c","o","m","m","e","r","c","e">>,
        <<"r","e","t","a","i","l">>>>,
      <<<<"c","o","n","s","u","m","e","r"," ","g","o","o","d","s">>,
        <<"r","e","t","a","i","l">>>>,
      <<<<"e","n","e","r","g","y">>,
        <<"e","n","e","r","g","y">>>>,
      <<<<"o","i","l">>,
        <<"e","n","e","r","g","y">>>>,
      <<<<"u","t","i","l","i","t","i","e","s">>,
        <<"e","n","e","r","g","y">>>>,
      <<<<"r","e","n","e","w","a","b","l","e">>,
        <<"e","n","e","r","g","y">>>>,
      <<<<"t","e","l","e","c","o","m">>,
        <<"t","e","l","e","c","o","m","m","u","n","i","c","a","t","i","o","n","s">>>>,
      <<<<"w","i","r","e","l","e","s","s">>,
        <<"t","e","l","e","c","o","m","m","u","n","i","c","a","t","i","o","n","s">>>>,
      <<<<"c","o","m","m","u","n","i","c","a","t","i","o","n","s">>,
        <<"t","e","l","e","c","o","m","m","u","n","i","c","a","t","i","o","n","s">>>>,
      <<<<"m","e","d","i","a">>,
        <<"m","e","d","i","a">>>>,
      <<<<"e","n","t","e","r","t","a","i","n","m","e","n","t">>,
        <<"m","e","d","i","a">>>>,
      <<<<"p","u","b","l","i","s","h","i","n","g">>,
        <<"m","e","d","i","a">>>>,
      <<<<"b","r","o","a","d","c","a","s","t">>,
        <<"m","e","d","i","a">>>>,
      <<<<"g","o","v","e","r","n","m","e","n","t">>,
        <<"g","o","v","e","r","n","m","e","n","t">>>>,
      <<<<"f","e","d","e","r","a","l">>,
        <<"g","o","v","e","r","n","m","e","n","t">>>>,
      <<<<"p","u","b","l","i","c"," ","s","e","c","t","o","r">>,
        <<"g","o","v","e","r","n","m","e","n","t">>>>,
      <<<<"d","e","f","e","n","s","e">>,
        <<"g","o","v","e","r","n","m","e","n","t">>>>,
      <<<<"m","i","l","i","t","a","r","y">>,
        <<"g","o","v","e","r","n","m","e","n","t">>>>,
      <<<<"e","d","u","c","a","t","i","o","n">>,
        <<"e","d","u","c","a","t","i","o","n">>>>,
      <<<<"u","n","i","v","e","r","s","i","t","y">>,
        <<"e","d","u","c","a","t","i","o","n">>>>,
      <<<<"a","c","a","d","e","m","i","c">>,
        <<"e","d","u","c","a","t","i","o","n">>>>,
      <<<<"h","i","g","h","e","r"," ","e","d","u","c","a","t","i","o","n">>,
        <<"e","d","u","c","a","t","i","o","n">>>>,
      <<<<"c","o","n","s","u","l","t","i","n","g">>,
        <<"p","r","o","f","e","s","s","i","o","n","a","l","_","s","e","r","v","i","c","e","s">>>>,
      <<<<"p","r","o","f","e","s","s","i","o","n","a","l"," ","s","e","r","v","i","c","e">>,
        <<"p","r","o","f","e","s","s","i","o","n","a","l","_","s","e","r","v","i","c","e","s">>>>,
      <<<<"l","e","g","a","l">>,
        <<"p","r","o","f","e","s","s","i","o","n","a","l","_","s","e","r","v","i","c","e","s">>>>,
      <<<<"a","c","c","o","u","n","t","i","n","g">>,
        <<"p","r","o","f","e","s","s","i","o","n","a","l","_","s","e","r","v","i","c","e","s">>>>
    >>

\* Lines 106-111.
CRITICAL_FIELDS == <<"company_name", "industry", "title", "employee_count">>

IMPORTANT_FIELDS == <<"company_summary", "founded_year", "seniority", "recent_news">>

NICE_TO_HAVE_FIELDS ==
    <<"skills", "employee_growth_rate", "total_funding", "latest_funding_stage",
      "company_tags", "news_themes">>

\* A dict with string keys is a function; {} is the function with no key.
EmptyDict == [k \in {} |-> None]

\* d.get(key, default)
Get(d, key, default) == IF key \in DOMAIN d THEN d[key] ELSE default

\* One provider's payload: the value under "_error" (None when the key is
\* absent), whether "_mock" is set, and the other keys.
Payload(error, mock, fields) == [error |-> error, mock |-> mock, fields |-> fields]

\* {"_error": msg}
ErrorPayload(msg) == Payload(Val("str", msg, 0, ""), FALSE, EmptyDict)

\* `data and not data.get("_error")`: the dict is not empty and the value
\* under "_error" is not truthy.
NoError(data) ==
    /\ (data.error.t # "none" \/ data.mock \/ DOMAIN data.fields # {})
    /\ ~IsTruthy(data.error)

\* Lines 440-549.
_get_field_mappings ==
    [first_name |-> << <<"apollo", "first_name">>, <<"pdl", "first_name">> >>,
     last_name |-> << <<"apollo", "last_name">>, <<"pdl", "last_name">> >>,
     full_name |-> << <<"pdl", "full_name">> >>,
     title |-> << <<"apollo", "title">>, <<"pdl", "job_title">> >>,
     company_name |-> << <<"pdl_company", "display_name">>, <<"pdl_company", "name">>,
                         <<"apollo", "company_name">>, <<"zoominfo", "company_name">>,
                         <<"pdl", "job_company_name">> >>,
     company_display_name |-> << <<"pdl_company", "display_name">> >>,
     industry |-> << <<"pdl_company", "industry">>, <<"apollo", "industry">>,
                     <<"zoominfo", "industry">>, <<"pdl", "job_company_industry">> >>,
     company_size |-> << <<"pdl_company", "size">>, <<"apollo", "company_size">>,
                         <<"pdl", "job_company_size">> >>,
     employee_count |-> << <<"pdl_company", "employee_count">>,
                           <<"zoominfo", "employee_count">> >>,
     employee_count_range |-> << <<"pdl_company", "employee_count_range">> >>,
     linkedin_url |-> << <<"apollo", "linkedin_url">>, <<"pdl", "linkedin_url">> >>,
     city |-> << <<"pdl_company", "locality">>, <<"apollo", "city">>,
                 <<"zoominfo", "city">>, <<"pdl", "location_locality">> >>,
     state |-> << <<"pdl_company", "region">>, <<"apollo", "state">>,
                  <<"zoominfo", "state">>, <<"pdl", "location_region">> >>,
     country |-> << <<"pdl_company", "country">>, <<"apollo", "country">>,
                    <<"zoominfo", "country">>, <<"pdl", "location_country">> >>,
     seniority |-> << <<"apollo", "seniority">> >>,
     skills |-> << <<"pdl", "skills">> >>,
     interests |-> << <<"pdl", "interests">> >>,
     experience |-> << <<"pdl", "experience">> >>,
     company_description |-> << <<"pdl_company", "summary">>, <<"zoominfo", "description">> >>,
     founded_year |-> << <<"pdl_company", "founded">>, <<"zoominfo", "founded_year">> >>,
     company_type |-> << <<"pdl_company", "type">> >>,
     ticker |-> << <<"pdl_company", "ticker">> >>,
     naics_codes |-> << <<"pdl_company", "naics">> >>,
     sic_codes |-> << <<"pdl_company", "sic">> >>,
     departments |-> << <<"apollo", "departments">> >>]

\* _resolve_field with the first candidate of the mapping winning,
\* whatever its priority.
_resolve_field_first(field, sources, raw_data) ==
    LET source_data(i) == Get(raw_data, sources[i][1], Payload(None, FALSE, EmptyDict))
        value(i) == Get(source_data(i).fields, sources[i][2], None)
        candidates == { i \in 1..Len(sources) :
                          /\ NoError(source_data(i))
                          /\ ~source_data(i).mock
                          /\ value(i).t # "none"
                          /\ ~(value(i).t = "str" /\ value(i).s = <<>>) }
    IN  IF candidates = {} THEN None
        ELSE value(CHOOSE i \in candidates : \A j \in candidates : i <= j)

\* Lines 551-586: the candidates are the non-None, non-"" values of the
\* sources that are neither in error nor mock, in the order of `sources`;
\* the stable sort by descending priority puts first the earliest candidate
\* of the highest priority.
_resolve_field(field, sources, raw_data) ==
    LET source_data(i) == Get(raw_data, sources[i][1], Payload(None, FALSE, EmptyDict))
        Value(data, i) == Get(data.fields, sources[i][2], None)
        Candidate(data, value) ==
            /\ NoError(data)
            /\ ~data.mock
            /\ value.t # "none"
            /\ ~(value.t = "str" /\ value.s = <<>>)
        Best(candidates, priority) ==
            IF candidates = {}
            THEN None
            ELSE LET first == CHOOSE i \in candidates :
                                  \A j \in candidates :
                                      \/ priority[j] < priority[i]
                                      \/ (priority[j] = priority[i] /\ i <= j)
                 IN  Value(source_data(first), first)
    IN  Best({ i \in 1..Len(sources) :
                 Candidate(source_data(i), Value(source_data(i), i)) },
             [i \in 1..Len(sources) |-> Get(SOURCE_PRIORITY, sources[i][1], 0)])

\* _normalize_industry without its last line: an industry that matches no
\* pattern of the table is dropped.
_normalize_industry_known_only(raw_industry) ==
    LET table == INDUSTRY_NORMALIZATION
        raw_lower == IF raw_industry.t = "str"
                     THEN str_strip(str_lower(raw_industry.s)) ELSE <<>>
        matches == { k \in DOMAIN table : str_contains(table[k][1], raw_lower) }
    IN  IF matches = {} THEN None
        ELSE Val("str",
                 table[CHOOSE k \in matches :
                           \A m \in matches :
                               \/ Len(table[m][1]) < Len(table[k][1])
                               \/ (Len(table[m][1]) = Len(table[k][1]) /\ k <= m)][2],
                 0, raw_industry.src)

\* Lines 678-705.  sorted(keys, key=len, reverse=True) is stable: among
\* patterns of one length the insertion order is kept.
_normalize_industry(raw_industry) ==
    LET Canonical(cs) == Val("str", cs, 0, raw_industry.src)
        Lookup(raw_lower, table) ==
            LET First(matches) ==
                    CHOOSE k \in matches :
                        \A m \in matches :
                            \/ Len(table[m][1]) < Len(table[k][1])
                            \/ (Len(table[m][1]) = Len(table[k][1]) /\ k <= m)
                Pick(exact, matches) ==
                    IF exact # {} THEN Canonical(table[CHOOSE k \in exact : TRUE][2])
                    ELSE IF matches # {} THEN Canonical(table[First(matches)][2])
                    ELSE Canonical(str_replace(str_replace(raw_lower, " ", <<"_">>), "-", <<"_">>))
            IN  Pick({ k \in DOMAIN table : table[k][1] = raw_lower },
                     { k \in DOMAIN table : str_contains(table[k][1], raw_lower) })
    IN  IF ~IsTruthy(raw_industry) \/ str_strip(raw_industry.s) = <<>>
        THEN None
        ELSE Lookup(str_strip(str_lower(raw_industry.s)), INDUSTRY_NORMALIZATION)

\* Lines 629-676.  int(base * 1.5) truncates towards zero.
_estimate_employee_count_from_range(range_str) ==
    LET IntVal(n) == Val("int", <<>>, n, range_str.src)
        OpenEnded(base) ==
            IF base.ok
            THEN IntVal(IF base.n >= 0 THEN (3 * base.n) \div 2
                        ELSE 0 - ((3 * (0 - base.n)) \div 2))
            ELSE None
        Midpoint(low, high) ==
            IF low.ok /\ high.ok THEN IntVal((low.n + high.n) \div 2) ELSE None
        Single(whole) == IF whole.ok THEN IntVal(whole.n) ELSE None
        Range(cleaned, parts) ==
            IF Len(parts) = 2
            THEN Midpoint(int_of(parts[1]), int_of(parts[2]))
            ELSE Single(int_of(cleaned))
        Parse(cleaned) ==
            IF cleaned # <<>> /\ cleaned[Len(cleaned)] = "+"
            THEN OpenEnded(int_of(SubSeq(cleaned, 1, Len(cleaned) - 1)))
            ELSE Range(cleaned, str_split(cleaned, "-"))
    IN  IF ~IsTruthy(range_str) \/ range_str.t # "str"
        THEN None
        ELSE Parse(str_replace(str_replace(str_strip(range_str.s), ",", <<>>), " ", <<>>))

\* _resolve_company_name done as the field merge does it: by trust weight.
_resolve_company_name_by_trust(raw_data, domain) ==
    IF IsTruthy(_resolve_field("company_name", _get_field_mappings.company_name, raw_data))
    THEN _resolve_field("company_name", _get_field_mappings.company_name, raw_data)
    ELSE Val("str", str_title(str_split(domain, ".")[1]), 0, "")

\* _resolve_company_name looking at the domain alone.
_resolve_company_name_from_domain(raw_data, domain) ==
    Val("str", str_title(str_split(domain, ".")[1]), 0, "")

\* Lines 251-294.
_resolve_company_name(raw_data, domain) ==
    LET data(source) == Get(raw_data, source, Payload(None, FALSE, EmptyDict))
        usable(source) == NoError(data(source)) /\ ~data(source).mock
        field(source, key) == Get(data(source).fields, key, None)
    IN  IF usable("pdl_company") /\ IsTruthy(field("pdl_company", "display_name"))
        THEN field("pdl_company", "display_name")
        ELSE IF usable("pdl_company") /\ IsTruthy(field("pdl_company", "name"))
        THEN field("pdl_company", "name")
        ELSE IF usable("apollo") /\ IsTruthy(field("apollo", "company_name"))
        THEN field("apollo", "company_name")
        ELSE IF usable("zoominfo") /\ IsTruthy(field("zoominfo", "company_name"))
        THEN field("zoominfo", "company_name")
        ELSE IF usable("pdl") /\ IsTruthy(field("pdl", "job_company_name"))
        THEN field("pdl", "job_company_name")
        ELSE Val("str", str_title(str_split(domain, ".")[1]), 0, "")

\* Lines 345-438.  A value computed from a payload, and a default taken for
\* a key the payload lacks, carry the payload's name in src.
_resolve_profile(raw_data) ==
    LET data(source) == Get(raw_data, source, Payload(None, FALSE, EmptyDict))
        From(source, key, default) ==
            [Get(data(source).fields, key, default) EXCEPT !.src = source]
        Equals(source, key, text) ==
            Val("bool", <<>>,
                IF Get(data(source).fields, key, None) = Val("str", text, 0, source)
                THEN 1 ELSE 0,
                source)
        List0 == Val("list", <<>>, 0, "")
        Dict0 == Val("dict", <<>>, 0, "")
        \* lines 373-377
        Mapped(field_mappings) ==
            LET resolved == [f \in DOMAIN field_mappings |->
                                _resolve_field(f, field_mappings[f], raw_data)]
            IN  [f \in {g \in DOMAIN field_mappings : resolved[g].t # "none"} |->
                    resolved[f]]
        \* lines 379-382
        Industry(normalized) ==
            IF IsTruthy(Get(normalized, "industry", None))
            THEN ("industry_raw" :> normalized["industry"]) @@
                 ("industry" :> _normalize_industry(normalized["industry"])) @@ normalized
            ELSE normalized
        \* lines 384-389
        Hunter(normalized) ==
            IF NoError(data("hunter"))
            THEN [email_verified |-> Equals("hunter", "status", <<"v", "a", "l", "i", "d">>),
                  email_score |-> From("hunter", "score", None),
                  email_deliverable |-> Equals("hunter", "result", <<"d", "e", "l", "i", "v", "e", "r", "a", "b", "l", "e">>)]
                 @@ normalized
            ELSE normalized
        \* lines 391-398
        GNews(normalized) ==
            IF NoError(data("gnews"))
            THEN [company_context |-> From("gnews", "answer", None),
                  recent_news |-> From("gnews", "results", List0),
                  news_themes |-> From("gnews", "themes", List0),
                  news_sentiment |-> From("gnews", "sentiment_indicators", Dict0),
                  news_by_category |-> From("gnews", "categorized", Dict0)]
                 @@ normalized
            ELSE normalized
        \* lines 400-414
        PdlCompany(normalized) ==
            IF NoError(data("pdl_company"))
            THEN [company_summary |-> From("pdl_company", "summary", None),
                  company_headline |-> From("pdl_company", "headline", None),
                  company_type |-> From("pdl_company", "type", None),
                  company_tags |-> From("pdl_company", "tags", List0),
                  total_funding |-> From("pdl_company", "total_funding_raised", None),
                  latest_funding_stage |-> From("pdl_company", "latest_funding_stage", None),
                  employee_growth_rate |-> From("pdl_company", "employee_growth_rate", None),
                  inferred_revenue |-> From("pdl_company", "inferred_revenue", None),
                  company_linkedin |-> From("pdl_company", "linkedin_url", None)]
                 @@ (IF /\ ~IsTruthy(Get(normalized, "employee_count", None))
                        /\ IsTruthy(From("pdl_company", "employee_count", None))
                     THEN "employee_count" :> From("pdl_company", "employee_count", None)
                     ELSE EmptyDict)
                 @@ normalized
            ELSE normalized
        \* lines 418-436
        SetEstimate(normalized, estimated) ==
            IF IsTruthy(estimated)
            THEN [employee_count |-> estimated,
                  employee_count_estimated |-> Val("bool", <<>>, 1, estimated.src)]
                 @@ normalized
            ELSE normalized
        Estimated(normalized, key) ==
            IF /\ ~IsTruthy(Get(normalized, "employee_count", None))
               /\ IsTruthy(Get(normalized, key, None))
            THEN SetEstimate(normalized,
                     _estimate_employee_count_from_range(Get(normalized, key, None)))
            ELSE normalized
    IN  Estimated(
            Estimated(PdlCompany(GNews(Hunter(Industry(Mapped(_get_field_mappings))))),
                      "employee_count_range"),
            "company_size")

\* Lines 588-627.  The score is a multiple of 1/60 for up to five configured
\* apis: the operator gives 60 times the score.
_calculate_quality_score(raw_data, apis) ==
    LET total_sources == Cardinality(apis) + 1
        successful_sources ==
            Cardinality({ s \in DOMAIN raw_data :
                            NoError(raw_data[s]) /\ ~raw_data[s].mock })
        data(source) == Get(raw_data, source, Payload(None, FALSE, EmptyDict))
        bonus(source) == IF NoError(data(source)) THEN 6 ELSE 0
        news_count == Get(data("gnews").fields, "result_count", Val("int", <<>>, 0, ""))
        news_bonus ==
            IF NoError(data("gnews"))
            THEN (IF news_count.n >= 5 THEN 3 ELSE 0)
                 + (IF IsTruthy(Get(data("gnews").fields, "themes", None)) THEN 3 ELSE 0)
            ELSE 0
        score == (60 * successful_sources) \div total_sources
                 + bonus("apollo") + bonus("zoominfo") + bonus("pdl_company") + news_bonus
    IN  IF score > 60 THEN 60 ELSE score

\* Lines 707-760.  score is in hundredths: round(x, 2) of a quotient by 26,
\* which is never halfway between two hundredths.
_build_completeness_report(normalized) ==
    LET has(f) == IsTruthy(Get(normalized, f, None))
        missing(fields) == SelectSeq(fields, LAMBDA f : ~has(f))
        all_fields == CRITICAL_FIELDS \o IMPORTANT_FIELDS \o NICE_TO_HAVE_FIELDS
        present == SelectSeq(all_fields, has)
        weighted_total ==
            Len(CRITICAL_FIELDS) * 3 + Len(IMPORTANT_FIELDS) * 2 + Len(NICE_TO_HAVE_FIELDS)
        weighted_present ==
            (Len(CRITICAL_FIELDS) - Len(missing(CRITICAL_FIELDS))) * 3
            + (Len(IMPORTANT_FIELDS) - Len(missing(IMPORTANT_FIELDS))) * 2
            + (Len(NICE_TO_HAVE_FIELDS) - Len(missing(NICE_TO_HAVE_FIELDS)))
    IN  [score |-> (200 * weighted_present + weighted_total) \div (2 * weighted_total),
         present |-> present,
         missing_critical |-> missing(CRITICAL_FIELDS),
         missing_important |-> missing(IMPORTANT_FIELDS),
         missing_nice |-> missing(NICE_TO_HAVE_FIELDS),
         field_coverage |-> <<Len(present), Len(all_fields)>>]

\* ---- the inputs of one enrichment -------------------------------------

\* enrich(email, domain): a domain of <<>> is the default None.
EnrichInputs ==
    { [email |-> <<"a", "d", "a", "@", "a", "c", "m", "e", ".", "c", "o", "m">>, domain |-> <<>>],
      [email |-> <<"a", "d", "a", "@", "a", "c", "m", "e", ".", "c", "o", "m">>, domain |-> <<"g", "l", "o", "b", "e", "x", "-", "l", "a", "b", "s", ".", "i", "o">>],
      [email |-> <<"a", "d", "a">>, domain |-> <<>>] }

\* self.apis as get_enrichment_apis() returns it: every provider
\* configured, or only two of them.
ApiSets == { {"apollo", "pdl", "hunter", "zoominfo", "gnews"}, {"apollo", "hunter"} }

\* What the awaited provider call of a source can do: return a payload
\* (real, flagged "_mock", or empty), raise EnrichmentAPIError with a
\* message, or raise an exception whose str() is "" (asyncio.TimeoutError()).
ApiOutcomes(source) ==
    LET StrVal(cs) == Val("str", cs, 0, source)
        IntVal(n)  == Val("int", <<>>, n, source)
        ListVal(n) == Val("list", <<>>, n, source)
        Returns(mock, fields) ==
            [exc |-> "", msg |-> <<>>, payload |-> Payload(None, mock, fields)]
        Raises(exc, msg) ==
            [exc |-> exc, msg |-> msg, payload |-> Payload(None, FALSE, EmptyDict)]
        api_error == Raises("EnrichmentAPIError", <<"r", "a", "t", "e", " ", "l", "i", "m", "i", "t", "e", "d">>)
        timeout   == Raises("Exception", <<>>)
    IN  CASE source = "apollo" ->
               { Returns(FALSE, [first_name |-> StrVal(<<"A", "d", "a">>), title |-> StrVal(<<"C", "T", "O">>),
                                 company_name |-> StrVal(<<"A", "c", "m", "e", " ", "C", "o", "r", "p">>),
                                 industry |-> StrVal(<<"C", "o", "m", "p", "u", "t", "e", "r", " ", "S", "o", "f", "t", "w", "a", "r", "e">>),
                                 company_size |-> StrVal(<<"5", "1", "-", "2", "0", "0">>),
                                 seniority |-> StrVal(<<"c", "_", "s", "u", "i", "t", "e">>)]),
                 Returns(TRUE, [company_name |-> StrVal(<<"M", "o", "c", "k", " ", "C", "o">>),
                                industry |-> StrVal(<<"T", "e", "c", "h", "n", "o", "l", "o", "g", "y">>)]),
                 api_error, timeout }
          [] source = "pdl" ->
               { Returns(FALSE, [first_name |-> StrVal(<<"A", "d", "a">>),
                                 job_title |-> StrVal(<<"C", "h", "i", "e", "f", " ", "T", "e", "c", "h", "n", "o", "l", "o", "g", "y", " ", "O", "f", "f", "i", "c", "e", "r">>),
                                 job_company_name |-> StrVal(<<"a", "c", "m", "e">>),
                                 job_company_industry |-> StrVal(<<"i", "n", "t", "e", "r", "n", "e", "t">>),
                                 skills |-> ListVal(3)]),
                 Returns(FALSE, EmptyDict),
                 api_error }
          [] source = "hunter" ->
               { Returns(FALSE, [status |-> StrVal(<<"v", "a", "l", "i", "d">>), score |-> IntVal(90),
                                 result |-> StrVal(<<"d", "e", "l", "i", "v", "e", "r", "a", "b", "l", "e">>)]),
                 Returns(TRUE, [status |-> StrVal(<<"v", "a", "l", "i", "d">>), score |-> IntVal(50),
                                result |-> StrVal(<<"r", "i", "s", "k", "y">>)]),
                 timeout }
          [] source = "zoominfo" ->
               { Returns(FALSE, [company_name |-> StrVal(<<"A", "c", "m", "e", " ", "I", "n", "c">>),
                                 industry |-> StrVal(<<"H", "o", "s", "p", "i", "t", "a", "l", " ", "&", " ", "H", "e", "a", "l", "t", "h", " ", "C", "a", "r", "e">>),
                                 founded_year |-> IntVal(1999)]),
                 Returns(TRUE, [company_name |-> StrVal(<<"M", "o", "c", "k", " ", "C", "o">>),
                                employee_count |-> IntVal(100)]),
                 api_error }
          [] source = "pdl_company" ->
               { Returns(FALSE, [display_name |-> StrVal(<<"A", "c", "m", "e">>),
                                 name |-> StrVal(<<"a", "c", "m", "e", " ", "c", "o", "r", "p", "o", "r", "a", "t", "i", "o", "n">>),
                                 industry |-> StrVal(<<"T", "h", "i", "n", "k", " ", "T", "a", "n", "k", "s">>),
                                 size |-> StrVal(<<"1", "0", "0", "1", "-", "5", "0", "0", "0">>),
                                 employee_count_range |-> StrVal(<<"1", "0", ",", "0", "0", "1", "+">>),
                                 summary |-> StrVal(<<"A", "c", "m", "e", " ", "m", "a", "k", "e", "s", " ", "a", "n", "v", "i", "l", "s">>),
                                 tags |-> ListVal(2)]),
                 Returns(TRUE, [summary |-> StrVal(<<"M", "o", "c", "k", " ", "s", "u", "m", "m", "a", "r", "y">>),
                                employee_count |-> IntVal(100)]),
                 api_error, timeout }
          [] source = "gnews" ->
               { Returns(FALSE, [answer |-> StrVal(<<"A", "c", "m", "e", " ", "i", "n", " ", "t", "h", "e", " ", "n", "e", "w", "s">>),
                                 results |-> ListVal(5), result_count |-> IntVal(5),
                                 themes |-> ListVal(2)]),
                 Returns(FALSE, [results |-> ListVal(0), result_count |-> IntVal(0)]),
                 api_error, timeout }

\* Lines 315-343: what _fetch_with_fallback returns when the provider's
\* enrich call ends with `outcome`; both except clauses return the same.
_fetch_with_fallback(source, apis, outcome) ==
    IF source \notin apis THEN ErrorPayload(<<"U", "n", "k", "n", "o", "w", "n", " ", "s", "o", "u", "r", "c", "e">>)
    ELSE IF outcome.exc = "" THEN outcome.payload
    ELSE ErrorPayload(outcome.msg)

\* Lines 240-249.
_fetch_pdl_company(apis, outcome) ==
    IF "pdl" \notin apis THEN ErrorPayload(<<"P", "D", "L", " ", "c", "o", "m", "p", "a", "n", "y", " ", "e", "n", "r", "i", "c", "h", "m", "e", "n", "t", " ", "n", "o", "t", " ", "a", "v", "a", "i", "l", "a", "b", "l", "e">>)
    ELSE IF outcome.exc = "" THEN outcome.payload
    ELSE ErrorPayload(outcome.msg)

\* Lines 296-313.
_fetch_gnews_with_name(apis, outcome) ==
    IF "gnews" \notin apis THEN ErrorPayload(<<"G", "N", "e", "w", "s", " ", "A", "P", "I", " ", "n", "o", "t", " ", "a", "v", "a", "i", "l", "a", "b", "l", "e">>)
    ELSE IF outcome.exc = "" THEN outcome.payload
    ELSE ErrorPayload(outcome.msg)

\* Lines 213-219: the coroutines gathered in Phase 1, each named by the
\* source it fetches; "pdl_company" is _fetch_pdl_company.
phase1_tasks == <<"apollo", "pdl", "hunter", "zoominfo", "pdl_company">>

\* ======================================================================
\* State: one generate_executive_review call and one enrich call
\* ======================================================================

VARIABLES
    er_req,              \* the arguments of generate_executive_review
    er_pc,               \* "start", "retry" (awaiting a retry call) or "done"
    er_result,           \* the result dict
    er_failures,         \* failures of the latest validation
    er_failing_sections, \* failing_sections of _retry_failing_fields
    er_attempt,          \* attempt of the retry loop
    er_calls,            \* client.messages.create calls made so far
    er_response,         \* what the latest messages.create call did
    er_outcome           \* how the call ended

er_vars ==
    <<er_req, er_pc, er_result, er_failures, er_failing_sections,
      er_attempt, er_calls, er_response, er_outcome>>

VARIABLES
    rad_in,              \* the arguments of enrich: email and domain
    rad_apis,            \* the keys of self.apis
    rad_pc,              \* "start", "phase1", "phase2", "done" or "raised"
    rad_domain,          \* the domain the fetches are made for
    rad_tasks,           \* the phase1_tasks: state and result of each
    rad_raw_data,        \* raw_data
    rad_gnews,           \* the news fetch: state and company name argument
    rad_data_sources,    \* self.data_sources
    rad_stored,          \* the sources whose raw data supabase stored
    rad_normalized       \* what enrich returns

rad_vars ==
    <<rad_in, rad_apis, rad_pc, rad_domain, rad_tasks, rad_raw_data, rad_gnews,
      rad_data_sources, rad_stored, rad_normalized>>

VARIABLES
    bat_emails,          \* the emails argument of enrich_batch
    bat_concurrency,     \* the concurrency argument
    bat_pc,              \* "start", "gather", "done"
    bat_semaphore,       \* the value of the asyncio.Semaphore
    bat_tasks,           \* the enrich_with_semaphore coroutines
    bat_lists,           \* the list objects that self.data_sources has named
    bat_data_sources,    \* self.data_sources: the list it names now
    bat_results          \* what enrich_batch returns

bat_vars ==
    <<bat_emails, bat_concurrency, bat_pc, bat_semaphore, bat_tasks, bat_lists,
      bat_data_sources, bat_results>>

VARIABLES
    llm_client,          \* whether LLMService has a client
    llm_profile,         \* the normalized_profile argument
    llm_pc,              \* "start", "loop" or "done"
    llm_attempt,         \* attempt of the loop of generate_personalization
    llm_responses,       \* what each messages.create call so far did
    llm_result,          \* the dict returned
    llm_raised           \* the exception that left the call

llm_vars ==
    <<llm_client, llm_profile, llm_pc, llm_attempt, llm_responses, llm_result,
      llm_raised>>

VARIABLES
    fn_in,               \* a function of the code and the arguments of its calls
    fn_out               \* what the calls made so far returned

fn_vars == <<fn_in, fn_out>>

VARIABLES
    db_clock,            \* the latest reading of datetime.utcnow()
    db_finalize,         \* the rows of the finalize_data table, as inserted
    db_read,             \* the latest get_finalize_data call and its result
    db_news_cache,       \* the cached news entry of each domain
    db_fetch             \* the latest _fetch_gnews_with_name call and its result

db_vars == <<db_clock, db_finalize, db_read, db_news_cache, db_fetch>>

vars == <<er_vars, rad_vars, bat_vars, llm_vars, fn_vars, db_vars>>

NoResult == [company_name |-> Company("", 0, 0, {})]

\* The executive review service is not running.
ERIdle ==
    /\ er_req = [client |-> FALSE]
    /\ er_pc = "idle"
    /\ er_result = NoResult
    /\ er_failures = {}
    /\ er_failing_sections = {}
    /\ er_attempt = 0
    /\ er_calls = 0
    /\ er_response = "none"
    /\ er_outcome = "none"

\* Before enrich has built it, the returned dict holds nothing.
NoProfile ==
    [profile |-> EmptyDict, data_sources |-> <<>>, data_quality_score |-> 0,
     completeness_report |-> _build_completeness_report(EmptyDict)]

\* No enrichment is running.
RADIdle ==
    /\ rad_in = [email |-> <<>>, domain |-> <<>>]
    /\ rad_apis = {}
    /\ rad_pc = "idle"
    /\ rad_domain = <<>>
    /\ rad_tasks = <<>>
    /\ rad_raw_data = EmptyDict
    /\ rad_gnews = [state |-> "none", company_name |-> None]
    /\ rad_data_sources = <<>>
    /\ rad_stored = {}
    /\ rad_normalized = NoProfile

\* No batch is running.
BatchIdle ==
    /\ bat_emails = <<>>
    /\ bat_concurrency = 0
    /\ bat_pc = "idle"
    /\ bat_semaphore = 0
    /\ bat_tasks = <<>>
    /\ bat_lists = <<>>
    /\ bat_data_sources = 0
    /\ bat_results = <<>>

\* No personalization is running.
LLMIdle ==
    /\ llm_client = FALSE
    /\ llm_profile = EmptyDict
    /\ llm_pc = "idle"
    /\ llm_attempt = 0
    /\ llm_responses = <<>>
    /\ llm_result = EmptyDict
    /\ llm_raised = "none"

\* No function is being called on its own.
FnIdle ==
    /\ fn_in = [fn |-> "none", calls |-> <<>>]
    /\ fn_out = <<>>

\* The persistence layer is not in use.
StoreIdle ==
    /\ db_clock = 0
    /\ db_finalize = <<>>
    /\ db_read = [email |-> "", state |-> "none"]
    /\ db_news_cache = EmptyDict
    /\ db_fetch = [domain |-> "", state |-> "none"]

\* What the steps of one service leave alone: the state of the others.
outside_er == <<rad_vars, bat_vars, llm_vars, fn_vars, db_vars>>

outside_rad == <<er_vars, bat_vars, llm_vars, fn_vars, db_vars>>

outside_bat == <<er_vars, rad_vars, llm_vars, fn_vars, db_vars>>

outside_llm == <<er_vars, rad_vars, bat_vars, fn_vars, db_vars>>

outside_fn == <<er_vars, rad_vars, bat_vars, llm_vars, db_vars>>

outside_db == <<er_vars, rad_vars, bat_vars, llm_vars, fn_vars>>

\* failing_sections: the section component of every failure.
FailingSections(failures) == {f.field.section : f \in failures}

\* A fallback that takes every section of the example.
_apply_fallback_all(result, failures, company_name, stage, industry, priority, challenge) ==
    LET fb == fallback_to_example(company_name, stage, industry, priority, challenge)
    IN  [k \in DOMAIN result |-> IF k \in DOMAIN fb THEN fb[k] ELSE result[k]]

\* Lines 1439-1462.
_apply_fallback_fields(result, failures, company_name, stage, industry, priority, challenge) ==
    LET fb == fallback_to_example(company_name, stage, industry, priority, challenge)
        failing_sections == FailingSections(failures)
    IN  [k \in DOMAIN result |->
            IF k \in failing_sections /\ k \in DOMAIN fb THEN fb[k] ELSE result[k]]

\* The result dict built from the tool input (lines 1269-1283).
BuildResult(req, result_data) ==
    [ company_name |-> req.company_name,
      stage |-> req.stage,
      executive_summary |-> result_data.executive_summary,
      advantages |-> result_data.advantages,
      risks |-> result_data.risks,
      recommendations |-> result_data.recommendations,
      case_study |->
          select_case_study(req.stage, req.priority, req.industry, req.challenge),
      case_study_relevance |-> result_data.case_study_relevance ]

MockOf(req) ==
    _get_mock_response(req.company_name, req.stage, req.priority,
                       req.industry, req.challenge)

FallbackOf(req, result, failures) ==
    _apply_fallback_fields(result, failures, req.company_name, req.stage,
                           req.industry, req.priority, req.challenge)

ERInit ==
    /\ er_req \in Requests
    /\ er_pc = "start"
    /\ er_result = NoResult
    /\ er_failures = {}
    /\ er_failing_sections = {}
    /\ er_attempt = 0
    /\ er_calls = 0
    /\ er_response = "none"
    /\ er_outcome = "none"
    /\ RADIdle
    /\ BatchIdle
    /\ LLMIdle
    /\ FnIdle
    /\ StoreIdle

\* The call returns `result` with the given outcome.
ERReturn(result, outcome) ==
    /\ er_pc' = "done"
    /\ er_result' = result
    /\ er_outcome' = outcome

\* One awaited client.messages.create call and what came back.
ModelCall(response) ==
    /\ er_calls' = er_calls + 1
    /\ er_response' = response

\* An except clause that re-raises to the caller.
ExceptHandlerReraise(req) == [result |-> NoResult, outcome |-> "raised"]

\* Lines 1299-1301: the except clause around the body of
\* generate_executive_review returns the mock response.
ExceptHandler(req) == [result |-> MockOf(req), outcome |-> "mock"]

\* Lines 1224-1226: no client, the mock response is returned.
GenerateNoClient ==
    /\ er_pc = "start"
    /\ ~er_req.client
    /\ ERReturn(MockOf(er_req), "mock")
    /\ UNCHANGED <<er_req, er_failures, er_failing_sections, er_attempt,
                   er_calls, er_response>>
    /\ UNCHANGED outside_er

\* Lines 1245-1255, 1299-1301: messages.create raises.
GenerateApiError ==
    /\ er_pc = "start"
    /\ er_req.client
    /\ ModelCall("api_error")
    /\ ERReturn(ExceptHandler(er_req).result, ExceptHandler(er_req).outcome)
    /\ UNCHANGED <<er_req, er_failures, er_failing_sections, er_attempt>>
    /\ UNCHANGED outside_er

\* Lines 1258-1266: the response holds no tool_use block.
GenerateNoToolUse ==
    /\ er_pc = "start"
    /\ er_req.client
    /\ ModelCall("no_tool_use")
    /\ ERReturn(MockOf(er_req), "mock")
    /\ UNCHANGED <<er_req, er_failures, er_failing_sections, er_attempt>>
    /\ UNCHANGED outside_er

\* Lines 1258-1297 with the entry of _retry_failing_fields (1375-1382).
GenerateToolUse ==
    /\ er_pc = "start"
    /\ er_req.client
    /\ ModelCall("tool_use")
    /\ \E result_data \in ToolInputs(er_req, ContentSections) :
        LET result == BuildResult(er_req, result_data)
            failures == validate_executive_review_content(
                            result, er_req.priority, er_req.challenge, er_req.industry)
        IN  IF ValidateRaises(result)
            THEN /\ ERReturn(ExceptHandler(er_req).result,
                             ExceptHandler(er_req).outcome)
                 /\ UNCHANGED <<er_failures, er_failing_sections, er_attempt>>
            ELSE IF failures = {}
            THEN /\ ERReturn(result, "validated")
                 /\ UNCHANGED <<er_failures, er_failing_sections, er_attempt>>
            ELSE IF max_retries = 0
            THEN /\ ERReturn(FallbackOf(er_req, result, failures), "fallback")
                 /\ er_failures' = failures
                 /\ er_failing_sections' = FailingSections(failures)
                 /\ UNCHANGED er_attempt
            ELSE /\ er_pc' = "retry"
                 /\ er_result' = result
                 /\ er_failures' = failures
                 /\ er_failing_sections' = FailingSections(failures)
                 /\ er_attempt' = 0
                 /\ UNCHANGED er_outcome
    /\ UNCHANGED er_req
    /\ UNCHANGED outside_er

\* Lines 1399-1407, 1431-1437: the retry call raises; the loop is left and
\* fallback is applied for the failures at hand.
RetryApiError ==
    /\ er_pc = "retry"
    /\ ModelCall("api_error")
    /\ ERReturn(FallbackOf(er_req, er_result, er_failures), "fallback")
    /\ UNCHANGED <<er_req, er_failures, er_failing_sections, er_attempt>>
    /\ UNCHANGED outside_er

\* The end of a loop iteration with the loop running one attempt too many.
RetryContinueOffByOne(result, failures) ==
    /\ er_failures' = failures
    /\ er_attempt' = er_attempt + 1
    /\ IF er_attempt + 1 < max_retries + 1
       THEN /\ er_pc' = "retry"
            /\ er_result' = result
            /\ UNCHANGED er_outcome
       ELSE ERReturn(FallbackOf(er_req, result, failures), "fallback")

\* The end of one loop iteration that did not return: the next attempt, or
\* fallback once range(max_retries) is exhausted.
RetryContinue(result, failures) ==
    /\ er_failures' = failures
    /\ er_attempt' = er_attempt + 1
    /\ IF er_attempt + 1 < max_retries
       THEN /\ er_pc' = "retry"
            /\ er_result' = result
            /\ UNCHANGED er_outcome
       ELSE ERReturn(FallbackOf(er_req, result, failures), "fallback")

\* Lines 1409-1416: no tool_use block in the retry response.
RetryNoToolUse ==
    /\ er_pc = "retry"
    /\ ModelCall("no_tool_use")
    /\ RetryContinue(er_result, er_failures)
    /\ UNCHANGED <<er_req, er_failing_sections>>
    /\ UNCHANGED outside_er

\* Lines 1418-1421: merge the sections of failing_sections the retry supplies.
MergeRetry(result, failing_sections, retry_data) ==
    [k \in DOMAIN result |->
        IF k \in failing_sections /\ k \in DOMAIN retry_data
           /\ Truthy(k, retry_data[k])
        THEN retry_data[k]
        ELSE result[k]]

\* The re-validation of line 1424: validate_executive_review_content(result).
Revalidate(result) == validate_executive_review_content(result, "", "", "")

\* Lines 1409-1433: a retry response with a tool_use block.
RetryToolUse ==
    /\ er_pc = "retry"
    /\ ModelCall("tool_use")
    /\ \E retry_data \in ToolInputs(er_req, er_failing_sections) :
        LET merged == MergeRetry(er_result, er_failing_sections, retry_data)
        IN  IF ValidateRaises(merged)
            THEN /\ ERReturn(FallbackOf(er_req, merged, er_failures), "fallback")
                 /\ UNCHANGED <<er_failures, er_attempt>>
            ELSE IF Revalidate(merged) = {}
            THEN /\ ERReturn(merged, "retry_validated")
                 /\ UNCHANGED <<er_failures, er_attempt>>
            ELSE RetryContinue(merged, Revalidate(merged))
    /\ UNCHANGED <<er_req, er_failing_sections>>
    /\ UNCHANGED outside_er


ERNext ==
    \/ GenerateNoClient
    \/ GenerateApiError
    \/ GenerateNoToolUse
    \/ GenerateToolUse
    \/ RetryApiError
    \/ RetryNoToolUse
    \/ RetryToolUse

SpecER == ERInit /\ [][ERNext]_vars

\* ---- enrich: the state machine ----------------------------------------

\* Lines 120-129: the orchestrator after __init__, with enrich about to be
\* called.
RADInit ==
    /\ rad_in \in EnrichInputs
    /\ rad_apis \in ApiSets
    /\ rad_pc = "start"
    /\ rad_domain = <<>>
    /\ rad_tasks = [i \in 1..Len(phase1_tasks) |->
                       [state |-> "none", result |-> Payload(None, FALSE, EmptyDict)]]
    /\ rad_raw_data = EmptyDict
    /\ rad_gnews = [state |-> "none", company_name |-> None]
    /\ rad_data_sources = <<>>
    /\ rad_stored = {}
    /\ rad_normalized = NoProfile
    /\ ERIdle
    /\ BatchIdle
    /\ LLMIdle
    /\ FnIdle
    /\ StoreIdle

\* Lines 154-163, 188-190 and 213-221: enrich resets self.data_sources,
\* takes the domain from the email when none is given (an email without
\* "@" raises IndexError, which enrich re-raises), and _fetch_all_sources
\* creates the Phase 1 coroutines and awaits their gather.
EnrichStart ==
    /\ rad_pc = "start"
    /\ rad_data_sources' = <<>>
    /\ LET parts == str_split(rad_in.email, "@")
       IN  IF rad_in.domain = <<>> /\ Len(parts) < 2
           THEN /\ rad_pc' = "raised"
                /\ UNCHANGED <<rad_domain, rad_tasks>>
           ELSE /\ rad_pc' = "phase1"
                /\ rad_domain' = IF rad_in.domain # <<>> THEN rad_in.domain ELSE parts[2]
                /\ rad_tasks' = [i \in DOMAIN rad_tasks |->
                                    [rad_tasks[i] EXCEPT !.state = "created"]]
    /\ UNCHANGED <<rad_in, rad_apis, rad_raw_data, rad_gnews, rad_stored, rad_normalized>>
    /\ UNCHANGED outside_rad

\* What the coroutine of Phase 1 task i returns for a provider outcome.
TaskResult(i, outcome) ==
    IF phase1_tasks[i] = "pdl_company"
    THEN _fetch_pdl_company(rad_apis, outcome)
    ELSE _fetch_with_fallback(phase1_tasks[i], rad_apis, outcome)

\* A Phase 1 task runs up to its await of the provider call; without the
\* api it returns its error payload at once (lines 332-334, 243-246).
TaskStart(i) ==
    /\ rad_pc = "phase1"
    /\ rad_tasks[i].state = "created"
    /\ LET api == IF phase1_tasks[i] = "pdl_company" THEN "pdl" ELSE phase1_tasks[i]
       IN  rad_tasks' =
               [rad_tasks EXCEPT ![i] =
                   IF api \in rad_apis
                   THEN [@ EXCEPT !.state = "awaiting"]
                   ELSE [state |-> "done",
                         result |-> TaskResult(i, CHOOSE o \in ApiOutcomes(phase1_tasks[i]) : TRUE)]]
    /\ UNCHANGED <<rad_in, rad_apis, rad_pc, rad_domain, rad_raw_data, rad_gnews,
                   rad_data_sources, rad_stored, rad_normalized>>
    /\ UNCHANGED outside_rad

\* The provider call of a Phase 1 task ends: the task is done with the
\* payload or the error payload (lines 336-343, 245-249).
TaskComplete(i) ==
    /\ rad_pc = "phase1"
    /\ rad_tasks[i].state = "awaiting"
    /\ \E outcome \in ApiOutcomes(phase1_tasks[i]) :
           rad_tasks' = [rad_tasks EXCEPT ![i] =
                            [state |-> "done", result |-> TaskResult(i, outcome)]]
    /\ UNCHANGED <<rad_in, rad_apis, rad_pc, rad_domain, rad_raw_data, rad_gnews,
                   rad_data_sources, rad_stored, rad_normalized>>
    /\ UNCHANGED outside_rad

\* A wait that resumes as soon as one of the tasks is done.
GatherAnyDone == \E i \in DOMAIN rad_tasks : rad_tasks[i].state = "done"

\* Line 221: await asyncio.gather(*phase1_tasks, return_exceptions=True)
\* resumes when every one of the tasks is done.
GatherDone == \A i \in DOMAIN rad_tasks : rad_tasks[i].state = "done"

\* Line 224, with the last name left out.
source_names_short == <<"apollo", "pdl", "hunter", "zoominfo">>

\* Line 224.
source_names == <<"apollo", "pdl", "hunter", "zoominfo", "pdl_company">>

\* Lines 223-231: zip(source_names, results) into raw_data.  No task
\* result is an exception (the coroutines catch Exception), so line 229
\* never runs.
Phase1RawData(tasks) ==
    [source \in { source_names[i] : i \in (DOMAIN source_names) \cap (DOMAIN tasks) } |->
        tasks[CHOOSE i \in DOMAIN source_names : source_names[i] = source].result]

\* Lines 165-186: enrich after _fetch_all_sources returned raw_data.  The
\* dict is walked in insertion order; a failing store_raw_data is logged
\* and the source is appended all the same.
EnrichFinish(raw_data) ==
    LET Returned(profile, data_sources) ==
            [profile |-> profile,
             data_sources |-> data_sources,
             data_quality_score |-> _calculate_quality_score(raw_data, rad_apis),
             completeness_report |-> _build_completeness_report(profile)]
        StoreAndReturn(good) ==
            /\ rad_data_sources' = rad_data_sources \o good
            /\ \E storage_up \in BOOLEAN :
                   rad_stored' = IF storage_up THEN { good[k] : k \in DOMAIN good } ELSE {}
            /\ rad_normalized' = Returned(_resolve_profile(raw_data), rad_data_sources \o good)
    IN  /\ rad_raw_data' = raw_data
        /\ StoreAndReturn(SelectSeq(source_names \o <<"gnews">>,
                                    LAMBDA s : s \in DOMAIN raw_data /\ NoError(raw_data[s])))
        /\ rad_pc' = "done"

\* Lines 221-236: the gather returns, raw_data is built, the company name
\* is resolved and the news fetch starts with it; without a gnews api
\* _fetch_gnews_with_name returns at once and enrich runs to its end.
GatherReturn ==
    /\ rad_pc = "phase1"
    /\ GatherDone
    /\ LET raw_data == Phase1RawData(rad_tasks)
           resolved_name == _resolve_company_name(raw_data, rad_domain)
       IN  IF "gnews" \in rad_apis
           THEN /\ rad_gnews' = [state |-> "awaiting", company_name |-> resolved_name]
                /\ rad_raw_data' = raw_data
                /\ rad_pc' = "phase2"
                /\ UNCHANGED <<rad_data_sources, rad_stored, rad_normalized>>
           ELSE /\ rad_gnews' = [state |-> "done", company_name |-> resolved_name]
                /\ EnrichFinish(("gnews" :> _fetch_gnews_with_name(rad_apis,
                                    CHOOSE o \in ApiOutcomes("gnews") : TRUE)) @@ raw_data)
    /\ UNCHANGED <<rad_in, rad_apis, rad_domain, rad_tasks>>
    /\ UNCHANGED outside_rad

\* Lines 236-238 and 165-186: the news call ends, its payload goes under
\* "gnews", and enrich runs to its end.
GNewsComplete ==
    /\ rad_pc = "phase2"
    /\ rad_gnews.state = "awaiting"
    /\ \E outcome \in ApiOutcomes("gnews") :
           EnrichFinish(("gnews" :> _fetch_gnews_with_name(rad_apis, outcome)) @@ rad_raw_data)
    /\ rad_gnews' = [rad_gnews EXCEPT !.state = "done"]
    /\ UNCHANGED <<rad_in, rad_apis, rad_domain, rad_tasks>>
    /\ UNCHANGED outside_rad

RADNext ==
    \/ EnrichStart
    \/ \E i \in DOMAIN rad_tasks : TaskStart(i)
    \/ \E i \in DOMAIN rad_tasks : TaskComplete(i)
    \/ GatherReturn
    \/ GNewsComplete

SpecRAD == RADInit /\ [][RADNext]_vars

\* ---- enrich_batch: the state machine -----------------------------------

\* The longest emails list tried.
MaxEmails == 3

\* enrich_batch(emails, concurrency): every list of at most MaxEmails of
\* the emails of EnrichInputs (one of them has no "@"), with a semaphore of
\* one or two.
BatchInputs ==
    { [emails |-> emails, concurrency |-> concurrency] :
          emails \in UNION { [1..n -> { in.email : in \in EnrichInputs }] : n \in 0..MaxEmails },
          concurrency \in {1, 2} }

\* What _fetch_all_sources can return to one enrich call of the batch:
\* every provider answered, only apollo and hunter answered, or every
\* provider raised EnrichmentAPIError (hunter: timed out).
BatchFetches ==
    LET all == {"apollo", "pdl", "hunter", "zoominfo", "pdl_company", "gnews"}
        answer(source) ==
            CHOOSE o \in ApiOutcomes(source) :
                o.exc = "" /\ ~o.payload.mock /\ \A p \in ApiOutcomes(source) :
                    p.exc = "" /\ ~p.payload.mock =>
                        Cardinality(DOMAIN p.payload.fields) <= Cardinality(DOMAIN o.payload.fields)
        failure(source) ==
            CHOOSE o \in ApiOutcomes(source) :
                o.exc # "" /\ \A p \in ApiOutcomes(source) : p.exc # "" => Len(p.msg) <= Len(o.msg)
    IN  { [source \in all |->
              _fetch_with_fallback(source, all,
                  IF source \in answering THEN answer(source) ELSE failure(source))] :
          answering \in {all, {"apollo", "hunter"}, {}} }

\* Line 175: the profile enrich resolves from each of them.
BatchProfiles == [raw_data \in BatchFetches |-> _resolve_profile(raw_data)]

\* Line 777: the orchestrator after __init__, with enrich_batch about to
\* be called; self.data_sources names the list made by __init__.
BatchInit ==
    /\ \E in \in BatchInputs :
           /\ bat_emails = in.emails
           /\ bat_concurrency = in.concurrency
    /\ bat_pc = "start"
    /\ bat_semaphore = 0
    /\ bat_tasks = <<>>
    /\ bat_lists = << <<>> >>
    /\ bat_data_sources = 1
    /\ bat_results = <<>>
    /\ ERIdle
    /\ RADIdle
    /\ LLMIdle
    /\ FnIdle
    /\ StoreIdle

\* Lines 777 and 787-789: the semaphore is made and gather creates one
\* enrich_with_semaphore coroutine per email.
BatchStart ==
    /\ bat_pc = "start"
    /\ bat_pc' = "gather"
    /\ bat_semaphore' = bat_concurrency
    /\ bat_tasks' = [i \in DOMAIN bat_emails |->
                        [state |-> "created", raw_data |-> EmptyDict,
                         result |-> [email |-> bat_emails[i], error |-> None,
                                     profile |-> EmptyDict, data_sources |-> 0]]]
    /\ UNCHANGED <<bat_emails, bat_concurrency, bat_lists, bat_data_sources, bat_results>>
    /\ UNCHANGED outside_bat

\* A semaphore that lets every coroutine in.
SemaphoreUnlocked == TRUE

\* Line 780: `async with semaphore` goes on without waiting while the
\* value is positive.
SemaphoreFree == bat_semaphore > 0

\* An except clause that lets the exception go: the coroutine ends raised.
BatchUncaught(i, message) ==
    [bat_tasks[i] EXCEPT !.state = "raised"]

\* Lines 783-785: the exception of enrich becomes this email's entry.
BatchCaught(i, message) ==
    [bat_tasks[i] EXCEPT
        !.state = "done",
        !.result = [@ EXCEPT !.error = Val("str", message, 0, "")]]

\* Lines 780-782 and 156-163: coroutine i enters the semaphore (the
\* coroutines run in the order gather created them, and waiters are woken
\* first-in first-out) and its enrich call runs up to its first await:
\* self.data_sources is bound to a new list, and an email without "@"
\* raises IndexError, which enrich re-raises to the except clause of
\* enrich_with_semaphore; leaving the `async with` releases the semaphore.
BatchAcquire(i) ==
    /\ bat_pc = "gather"
    /\ bat_tasks[i].state = "created"
    /\ \A j \in 1..(i - 1) : bat_tasks[j].state # "created"
    /\ SemaphoreFree
    /\ bat_lists' = Append(bat_lists, <<>>)
    /\ bat_data_sources' = Len(bat_lists) + 1
    /\ IF Len(str_split(bat_emails[i], "@")) < 2
       THEN /\ bat_tasks' = [bat_tasks EXCEPT ![i] =
                                BatchCaught(i, <<"l", "i", "s", "t", " ", "i", "n", "d", "e", "x", " ", "o", "u", "t", " ", "o", "f", " ", "r", "a", "n", "g", "e">>)]
            /\ UNCHANGED bat_semaphore
       ELSE /\ bat_tasks' = [bat_tasks EXCEPT ![i].state = "fetching"]
            /\ bat_semaphore' = bat_semaphore - 1
    /\ UNCHANGED <<bat_emails, bat_concurrency, bat_pc, bat_results>>
    /\ UNCHANGED outside_bat

\* Lines 163-186 and 782: _fetch_all_sources returns to the enrich call of
\* coroutine i, which without another await appends its sources to the
\* list self.data_sources names now, puts that list into the profile and
\* returns it; the semaphore is released.  Between the first await and
\* this point enrich touches no state of the orchestrator.
BatchEnrichReturn(i) ==
    /\ bat_pc = "gather"
    /\ bat_tasks[i].state = "fetching"
    /\ \E raw_data \in BatchFetches :
           /\ bat_lists' =
                  [bat_lists EXCEPT ![bat_data_sources] =
                      @ \o SelectSeq(source_names \o <<"gnews">>,
                                     LAMBDA s : NoError(raw_data[s]))]
           /\ bat_tasks' =
                  [bat_tasks EXCEPT ![i] =
                      [state |-> "done", raw_data |-> raw_data,
                       result |-> [@.result EXCEPT
                                      !.profile = BatchProfiles[raw_data],
                                      !.data_sources = bat_data_sources]]]
    /\ bat_semaphore' = bat_semaphore + 1
    /\ UNCHANGED <<bat_emails, bat_concurrency, bat_pc, bat_data_sources, bat_results>>
    /\ UNCHANGED outside_bat

\* Lines 787-789: gather returns the coroutines' results in the order of
\* the emails once all of them are done.
BatchReturn ==
    /\ bat_pc = "gather"
    /\ \A i \in DOMAIN bat_tasks : bat_tasks[i].state = "done"
    /\ bat_pc' = "done"
    /\ bat_results' = [i \in DOMAIN bat_tasks |-> bat_tasks[i].result]
    /\ UNCHANGED <<bat_emails, bat_concurrency, bat_semaphore, bat_tasks, bat_lists,
                   bat_data_sources>>
    /\ UNCHANGED outside_bat

BatchNext ==
    \/ BatchStart
    \/ \E i \in DOMAIN bat_tasks : BatchAcquire(i)
    \/ \E i \in DOMAIN bat_tasks : BatchEnrichReturn(i)
    \/ BatchReturn

\* The event loop runs every coroutine that can run, and every awaited
\* provider call ends (with a payload, an error or a timeout).
SpecBatch == BatchInit /\ [][BatchNext]_vars /\ WF_vars(BatchNext)

(***************************************************************************)
(* PART III : llm_service.py                                               *)
(***************************************************************************)

\* Line 22.
MAX_RETRIES == 3

\* One self.client.messages.create call of generate_personalization can
\* return text that _parse_response parses ("parsed") or does not parse
\* ("unparsed"), return a response with an empty content list
\* ("no_content": response.content[0] raises IndexError), or raise one of
\* the anthropic errors.  RateLimitError and APITimeoutError are subclasses
\* of APIError; "APIError" stands for every other APIError.

\* Lines 387-401.  The texts are kept as their parts.
_fallback_response(profile) ==
    [intro_hook |->
         (IF IsTruthy(Get(profile, "first_name", Val("str", <<>>, 0, "")))
          THEN <<"Hi ", Get(profile, "first_name", None).s, ", ">>
          ELSE <<>>)
         \o <<"This guide was created to help professionals like you navigate common challenges in your field.">>,
     cta |-> <<"Download the guide and discover actionable insights for your team.">>,
     model_used |-> "fallback",
     tokens_used |-> 0,
     latency_ms |-> 0]

\* Line 68: LLMService after __init__, with generate_personalization about
\* to be called with a profile.
LLMInit ==
    /\ llm_client \in BOOLEAN
    /\ llm_profile \in { EmptyDict, [first_name |-> Val("str", <<"A", "d", "a">>, 0, "apollo")] }
    /\ llm_pc = "start"
    /\ llm_attempt = 0
    /\ llm_responses = <<>>
    /\ llm_result = EmptyDict
    /\ llm_raised = "none"
    /\ ERIdle
    /\ RADIdle
    /\ BatchIdle
    /\ FnIdle
    /\ StoreIdle

\* Lines 85-86: without a client the mock response is returned.
PersonalizeNoClient ==
    /\ llm_pc = "start"
    /\ ~llm_client
    /\ llm_pc' = "done"
    /\ llm_result' = [model_used |-> "mock", tokens_used |-> 0, latency_ms |-> 0]
    /\ UNCHANGED <<llm_client, llm_profile, llm_attempt, llm_responses, llm_raised>>
    /\ UNCHANGED outside_llm

\* A loop that goes round once more than range(MAX_RETRIES).
LoopGoesOnOffByOne(attempt) == attempt + 1 < MAX_RETRIES + 1

\* Line 94: for attempt in range(MAX_RETRIES) has another iteration.
LoopGoesOn(attempt) == attempt + 1 < MAX_RETRIES

\* Lines 94 and 146-148: the body of the loop ended without return or
\* raise (by continue or by running off its end): the next iteration
\* starts, or after the last one the fallback response is returned.
NextAttempt ==
    IF LoopGoesOn(llm_attempt)
    THEN /\ llm_attempt' = llm_attempt + 1
         /\ llm_pc' = "loop"
         /\ UNCHANGED <<llm_result, llm_raised>>
    ELSE /\ llm_pc' = "done"
         /\ llm_result' = _fallback_response(llm_profile)
         /\ UNCHANGED <<llm_attempt, llm_raised>>

\* Lines 88-130: with a client, one iteration of the loop whose
\* messages.create call returns.  Parsed text is returned as the result;
\* unparsed text leads to the next iteration (with the fix prompt unless
\* this was the last one); an empty content list raises IndexError, which
\* no except clause catches.
PersonalizeReply ==
    /\ llm_pc \in {"start", "loop"}
    /\ llm_client
    /\ \E response \in {"parsed", "unparsed", "no_content"} :
           /\ llm_responses' = Append(llm_responses, response)
           /\ CASE response = "parsed" ->
                      /\ llm_pc' = "done"
                      /\ llm_result' = [model_used |-> "model", tokens_used |-> 1,
                                        latency_ms |-> 0]
                      /\ UNCHANGED <<llm_attempt, llm_raised>>
                [] response = "unparsed" -> NextAttempt
                [] response = "no_content" ->
                      /\ llm_pc' = "done"
                      /\ llm_raised' = "IndexError"
                      /\ UNCHANGED <<llm_attempt, llm_result>>
    /\ UNCHANGED <<llm_client, llm_profile>>
    /\ UNCHANGED outside_llm

\* Lines 96-101 and 132-144: one iteration whose messages.create call
\* raises.  RateLimitError (after a sleep) and APITimeoutError continue;
\* any other APIError is re-raised in the last iteration and otherwise
\* the loop goes on.
PersonalizeError ==
    /\ llm_pc \in {"start", "loop"}
    /\ llm_client
    /\ \E error \in {"RateLimitError", "APITimeoutError", "APIError"} :
           /\ llm_responses' = Append(llm_responses, error)
           /\ IF error = "APIError" /\ llm_attempt = MAX_RETRIES - 1
              THEN /\ llm_pc' = "done"
                   /\ llm_raised' = error
                   /\ UNCHANGED <<llm_attempt, llm_result>>
              ELSE NextAttempt
    /\ UNCHANGED <<llm_client, llm_profile>>
    /\ UNCHANGED outside_llm

LLMNext ==
    \/ PersonalizeNoClient
    \/ PersonalizeReply
    \/ PersonalizeError

SpecLLM == LLMInit /\ [][LLMNext]_vars

(***************************************************************************)
(* PART IV : context_inference_service.py                                  *)
(***************************************************************************)

\* A profile is a dict of Python values.  A list holds its items in s and
\* its length in n; a float holds its value in hundredths in n.

\* Lines 20-38: the keyword sets, by their names in the code.
Keywords ==
    [AI_CLOUD_KEYWORDS |->
         { <<"a", "i">>,
           <<"a", "r", "t", "i", "f", "i", "c", "i", "a", "l", " ", "i", "n", "t", "e", "l", "l", "i", "g", "e", "n", "c", "e">>,
           <<"m", "a", "c", "h", "i", "n", "e", " ", "l", "e", "a", "r", "n", "i", "n", "g">>,
           <<"c", "l", "o", "u", "d">>,
           <<"s", "a", "a", "s">>,
           <<"c", "l", "o", "u", "d", " ", "c", "o", "m", "p", "u", "t", "i", "n", "g">>,
           <<"d", "e", "e", "p", " ", "l", "e", "a", "r", "n", "i", "n", "g">>,
           <<"n", "e", "u", "r", "a", "l">>,
           <<"g", "p", "u">> },
     MODERN_TECH_KEYWORDS |->
         { <<"k", "u", "b", "e", "r", "n", "e", "t", "e", "s">>,
           <<"d", "o", "c", "k", "e", "r">>,
           <<"m", "i", "c", "r", "o", "s", "e", "r", "v", "i", "c", "e", "s">>,
           <<"d", "e", "v", "o", "p", "s">>,
           <<"s", "e", "r", "v", "e", "r", "l", "e", "s", "s">>,
           <<"c", "l", "o", "u", "d", "-", "n", "a", "t", "i", "v", "e">> },
     TRANSFORMATION_KEYWORDS |->
         { <<"d", "i", "g", "i", "t", "a", "l", " ", "t", "r", "a", "n", "s", "f", "o", "r", "m", "a", "t", "i", "o", "n">>,
           <<"m", "o", "d", "e", "r", "n", "i", "z", "a", "t", "i", "o", "n">>,
           <<"m", "i", "g", "r", "a", "t", "i", "o", "n">>,
           <<"c", "l", "o", "u", "d", " ", "m", "i", "g", "r", "a", "t", "i", "o", "n">>,
           <<"t", "r", "a", "n", "s", "f", "o", "r", "m", "a", "t", "i", "o", "n">> },
     COST_KEYWORDS |->
         { <<"c", "o", "s", "t", " ", "r", "e", "d", "u", "c", "t", "i", "o", "n">>,
           <<"c", "o", "s", "t", " ", "s", "a", "v", "i", "n", "g", "s">>,
           <<"e", "f", "f", "i", "c", "i", "e", "n", "c", "y">>,
           <<"c", "o", "s", "t", " ", "o", "p", "t", "i", "m", "i", "z", "a", "t", "i", "o", "n">>,
           <<"b", "u", "d", "g", "e", "t">>,
           <<"e", "x", "p", "e", "n", "s", "e">> },
     AI_ADOPTION_KEYWORDS |->
         { <<"a", "i", " ", "a", "d", "o", "p", "t", "i", "o", "n">>,
           <<"m", "a", "c", "h", "i", "n", "e", " ", "l", "e", "a", "r", "n", "i", "n", "g">>,
           <<"a", "r", "t", "i", "f", "i", "c", "i", "a", "l", " ", "i", "n", "t", "e", "l", "l", "i", "g", "e", "n", "c", "e">>,
           <<"g", "e", "n", "e", "r", "a", "t", "i", "v", "e", " ", "a", "i">>,
           <<"l", "l", "m">>,
           <<"a", "i", " ", "s", "t", "r", "a", "t", "e", "g", "y">> },
     GROWTH_KEYWORDS |->
         { <<"e", "x", "p", "a", "n", "s", "i", "o", "n">>,
           <<"g", "r", "o", "w", "t", "h">>,
           <<"s", "c", "a", "l", "i", "n", "g">>,
           <<"a", "c", "q", "u", "i", "s", "i", "t", "i", "o", "n">>,
           <<"n", "e", "w", " ", "m", "a", "r", "k", "e", "t">> },
     TALENT_KEYWORDS |->
         { <<"t", "a", "l", "e", "n", "t">>,
           <<"h", "i", "r", "i", "n", "g">>,
           <<"s", "k", "i", "l", "l", "s", " ", "g", "a", "p">>,
           <<"w", "o", "r", "k", "f", "o", "r", "c", "e">>,
           <<"r", "e", "c", "r", "u", "i", "t", "m", "e", "n", "t">>,
           <<"s", "k", "i", "l", "l", "s", " ", "s", "h", "o", "r", "t", "a", "g", "e">> },
     INTEGRATION_KEYWORDS |->
         { <<"i", "n", "t", "e", "g", "r", "a", "t", "i", "o", "n">>,
           <<"i", "n", "t", "e", "r", "o", "p", "e", "r", "a", "b", "i", "l", "i", "t", "y">>,
           <<"c", "o", "m", "p", "a", "t", "i", "b", "i", "l", "i", "t", "y">>,
           <<"m", "i", "g", "r", "a", "t", "i", "o", "n">>,
           <<"l", "e", "g", "a", "c", "y">> },
     INVESTMENT_KEYWORDS |->
         { <<"i", "n", "v", "e", "s", "t", "m", "e", "n", "t">>,
           <<"f", "u", "n", "d", "i", "n", "g">>,
           <<"c", "a", "p", "i", "t", "a", "l">>,
           <<"a", "c", "q", "u", "i", "s", "i", "t", "i", "o", "n">>,
           <<"s", "t", "r", "a", "t", "e", "g", "i", "c", " ", "i", "n", "v", "e", "s", "t", "m", "e", "n", "t">>,
           <<"s", "e", "c", "u", "r", "e", "s">>,
           <<"r", "a", "i", "s", "e", "s">>,
           <<"r", "a", "i", "s", "e", "d">>,
           <<"s", "e", "r", "i", "e", "s">> },
     PILOT_KEYWORDS |->
         { <<"p", "i", "l", "o", "t">>,
           <<"p", "r", "o", "o", "f", " ", "o", "f", " ", "c", "o", "n", "c", "e", "p", "t">>,
           <<"p", "o", "c">>,
           <<"t", "e", "s", "t", "i", "n", "g">>,
           <<"t", "r", "i", "a", "l">>,
           <<"p", "r", "o", "t", "o", "t", "y", "p", "e">> },
     DATA_AI_ROLE_KEYWORDS |->
         { <<"d", "a", "t", "a">>,
           <<"a", "i">>,
           <<"m", "l">>,
           <<"a", "n", "a", "l", "y", "t", "i", "c", "s">>,
           <<"m", "a", "c", "h", "i", "n", "e", " ", "l", "e", "a", "r", "n", "i", "n", "g">>,
           <<"a", "r", "t", "i", "f", "i", "c", "i", "a", "l", " ", "i", "n", "t", "e", "l", "l", "i", "g", "e", "n", "c", "e">> },
     REGULATED_INDUSTRIES |->
         { <<"h", "e", "a", "l", "t", "h", "c", "a", "r", "e">>,
           <<"f", "i", "n", "a", "n", "c", "i", "a", "l", "_", "s", "e", "r", "v", "i", "c", "e", "s">>,
           <<"g", "o", "v", "e", "r", "n", "m", "e", "n", "t">>,
           <<"b", "a", "n", "k", "i", "n", "g">>,
           <<"i", "n", "s", "u", "r", "a", "n", "c", "e">>,
           <<"p", "h", "a", "r", "m", "a">> },
     CLOUD_TAGS |->
         { <<"c", "l", "o", "u", "d">>,
           <<"c", "l", "o", "u", "d", " ", "c", "o", "m", "p", "u", "t", "i", "n", "g">>,
           <<"a", "w", "s">>,
           <<"a", "z", "u", "r", "e">>,
           <<"g", "c", "p">>,
           <<"g", "o", "o", "g", "l", "e", " ", "c", "l", "o", "u", "d">>,
           <<"s", "a", "a", "s">>,
           <<"i", "a", "a", "s">>,
           <<"p", "a", "a", "s">> },
     AI_ML_TAGS |->
         { <<"a", "r", "t", "i", "f", "i", "c", "i", "a", "l", " ", "i", "n", "t", "e", "l", "l", "i", "g", "e", "n", "c", "e">>,
           <<"m", "a", "c", "h", "i", "n", "e", " ", "l", "e", "a", "r", "n", "i", "n", "g">>,
           <<"d", "e", "e", "p", " ", "l", "e", "a", "r", "n", "i", "n", "g">>,
           <<"d", "a", "t", "a", " ", "s", "c", "i", "e", "n", "c", "e">>,
           <<"n", "e", "u", "r", "a", "l", " ", "n", "e", "t", "w", "o", "r", "k">>,
           <<"n", "l", "p">>,
           <<"c", "o", "m", "p", "u", "t", "e", "r", " ", "v", "i", "s", "i", "o", "n">>,
           <<"g", "e", "n", "e", "r", "a", "t", "i", "v", "e", " ", "a", "i">> },
     TRADITIONAL_TAGS |->
         { <<"m", "a", "i", "n", "f", "r", "a", "m", "e">>,
           <<"o", "n", "-", "p", "r", "e", "m", "i", "s", "e">>,
           <<"o", "n", "-", "p", "r", "e", "m", "i", "s", "e", "s">>,
           <<"l", "e", "g", "a", "c", "y">>,
           <<"c", "o", "b", "o", "l">>,
           <<"e", "r", "p">> },
     SECURITY_TAGS |->
         { <<"c", "y", "b", "e", "r", "s", "e", "c", "u", "r", "i", "t", "y">>,
           <<"s", "e", "c", "u", "r", "i", "t", "y">>,
           <<"i", "n", "f", "o", "r", "m", "a", "t", "i", "o", "n", " ", "s", "e", "c", "u", "r", "i", "t", "y">>,
           <<"c", "o", "m", "p", "l", "i", "a", "n", "c", "e">>,
           <<"z", "e", "r", "o", " ", "t", "r", "u", "s", "t">>,
           <<"i", "d", "e", "n", "t", "i", "t", "y", " ", "m", "a", "n", "a", "g", "e", "m", "e", "n", "t">> },
     DATA_TAGS |->
         { <<"b", "i", "g", " ", "d", "a", "t", "a">>,
           <<"a", "n", "a", "l", "y", "t", "i", "c", "s">>,
           <<"d", "a", "t", "a", " ", "w", "a", "r", "e", "h", "o", "u", "s", "e">>,
           <<"d", "a", "t", "a", " ", "l", "a", "k", "e">>,
           <<"b", "u", "s", "i", "n", "e", "s", "s", " ", "i", "n", "t", "e", "l", "l", "i", "g", "e", "n", "c", "e">>,
           <<"d", "a", "t", "a", " ", "e", "n", "g", "i", "n", "e", "e", "r", "i", "n", "g">> }]

\* Lines 96-101: text is a lower-cased str, "" where the profile has none.
_search_text(text, keywords) ==
    text # <<>> /\ \E kw \in keywords : str_contains(kw, str_lower(text))

\* Lines 104-115: articles are the items of a list; an item that is no
\* dict is skipped.
_search_articles(articles, keywords) ==
    LET Lowered(article, key) ==
            IF IsTruthy(Get(article.fields, key, None))
            THEN str_lower(article.fields[key].s) ELSE <<>>
    IN  \E i \in DOMAIN articles :
            /\ articles[i].t = "dict"
            /\ \E kw \in keywords :
                   \/ str_contains(kw, Lowered(articles[i], "title"))
                   \/ str_contains(kw, Lowered(articles[i], "content"))

\* Lines 118-127, and _search_tags (130-132), which is _search_themes on
\* the company tags.
_search_themes(themes, keywords) ==
    \E i \in DOMAIN themes :
        /\ IsTruthy(themes[i])
        /\ \E kw \in keywords : str_contains(kw, str_lower(themes[i].s))

\* Lines 41-93.  list(set(...)) keeps no order: each bucket is a set.
extract_tech_signals_from_tags(tags) ==
    LET _match_tag(tag, category) ==
            \/ tag \in category
            \/ \E kw \in category : Len(kw) > 4 /\ str_contains(kw, tag)
        Matching(tags_lower, category) ==
            { tag \in tags_lower : _match_tag(tag, category) }
        Signals(cloud, ai_ml, traditional, security, data) ==
            [cloud |-> cloud, ai_ml |-> ai_ml, traditional |-> traditional,
             security |-> security, data |-> data,
             maturity |->
                 IF ai_ml # {} /\ cloud # {} THEN <<"a", "d", "v", "a", "n", "c", "e", "d">>
                 ELSE IF cloud # {} \/ ai_ml # {} THEN <<"m", "o", "d", "e", "r", "n">>
                 ELSE IF traditional # {} THEN <<"t", "r", "a", "d", "i", "t", "i", "o", "n", "a", "l">>
                 ELSE <<"m", "i", "x", "e", "d">>]
        Categorize(tags_lower) ==
            Signals(Matching(tags_lower, Keywords.CLOUD_TAGS),
                    Matching(tags_lower, Keywords.AI_ML_TAGS),
                    Matching(tags_lower, Keywords.TRADITIONAL_TAGS),
                    Matching(tags_lower, Keywords.SECURITY_TAGS),
                    Matching(tags_lower, Keywords.DATA_TAGS))
    IN  IF tags = <<>>
        THEN [cloud |-> {}, ai_ml |-> {}, traditional |-> {}, security |-> {},
              data |-> {}, maturity |-> <<"u", "n", "k", "n", "o", "w", "n">>]
        ELSE Categorize({ str_strip(str_lower(tags[i].s)) :
                          i \in { j \in DOMAIN tags : IsTruthy(tags[j]) } })

\* infer_it_environment with both founding-year rules ahead of the news
\* themes.
infer_it_environment_year_first(profile) ==
    LET Items(v) == IF IsTruthy(v) THEN v.s ELSE <<>>
        LowerOf(v) == IF IsTruthy(v) THEN str_lower(v.s) ELSE <<>>
        Number(v) == IsTruthy(v) /\ v.t \in {"int", "float", "bool"}
        Hundredths(v) == IF v.t = "float" THEN v.n ELSE 100 * v.n
        Tech(industry) ==
            industry \in {<<"t", "e", "c", "h", "n", "o", "l", "o", "g", "y">>, <<"s", "o", "f", "t", "w", "a", "r", "e">>, <<"s", "a", "a", "s">>, <<"c", "l", "o", "u", "d">>}
        Cascade(tags, themes, industry, founded, maturity) ==
            IF tags # <<>> /\ maturity = <<"a", "d", "v", "a", "n", "c", "e", "d">> THEN <<"m", "o", "d", "e", "r", "n">>
            ELSE IF tags # <<>> /\ maturity = <<"t", "r", "a", "d", "i", "t", "i", "o", "n", "a", "l">> THEN <<"t", "r", "a", "d", "i", "t", "i", "o", "n", "a", "l">>
            ELSE IF _search_themes(tags, Keywords.AI_CLOUD_KEYWORDS
                                         \cup Keywords.MODERN_TECH_KEYWORDS)
            THEN <<"m", "o", "d", "e", "r", "n">>
            ELSE IF Number(founded) /\ Hundredths(founded) > 201500 /\ Tech(industry)
            THEN <<"m", "o", "d", "e", "r", "n">>
            ELSE IF Number(founded) /\ Hundredths(founded) < 200000 /\ ~Tech(industry)
            THEN <<"t", "r", "a", "d", "i", "t", "i", "o", "n", "a", "l">>
            ELSE IF _search_themes(themes, Keywords.TRANSFORMATION_KEYWORDS)
            THEN <<"m", "o", "d", "e", "r", "n", "i", "z", "i", "n", "g">>
            ELSE IF _search_themes(themes, Keywords.AI_CLOUD_KEYWORDS)
            THEN <<"m", "o", "d", "e", "r", "n", "i", "z", "i", "n", "g">>
            ELSE <<"m", "o", "d", "e", "r", "n", "i", "z", "i", "n", "g">>
        WithTags(tags) ==
            Cascade(tags, Items(Get(profile, "news_themes", None)),
                    LowerOf(Get(profile, "industry", None)),
                    Get(profile, "founded_year", None),
                    extract_tech_signals_from_tags(tags).maturity)
    IN  WithTags(Items(Get(profile, "company_tags", None)))

\* Lines 135-185.  `profile.get(key, []) or []` gives the items of a
\* truthy list and `(profile.get(key) or "").lower()` the lower-cased
\* characters of a truthy str; a number is compared in hundredths.
infer_it_environment(profile) ==
    LET Items(v) == IF IsTruthy(v) THEN v.s ELSE <<>>
        LowerOf(v) == IF IsTruthy(v) THEN str_lower(v.s) ELSE <<>>
        Number(v) == IsTruthy(v) /\ v.t \in {"int", "float", "bool"}
        Hundredths(v) == IF v.t = "float" THEN v.n ELSE 100 * v.n
        Tech(industry) ==
            industry \in {<<"t", "e", "c", "h", "n", "o", "l", "o", "g", "y">>, <<"s", "o", "f", "t", "w", "a", "r", "e">>, <<"s", "a", "a", "s">>, <<"c", "l", "o", "u", "d">>}
        Cascade(tags, themes, industry, founded, maturity) ==
            IF tags # <<>> /\ maturity = <<"a", "d", "v", "a", "n", "c", "e", "d">> THEN <<"m", "o", "d", "e", "r", "n">>
            ELSE IF tags # <<>> /\ maturity = <<"t", "r", "a", "d", "i", "t", "i", "o", "n", "a", "l">> THEN <<"t", "r", "a", "d", "i", "t", "i", "o", "n", "a", "l">>
            ELSE IF _search_themes(tags, Keywords.AI_CLOUD_KEYWORDS
                                         \cup Keywords.MODERN_TECH_KEYWORDS)
            THEN <<"m", "o", "d", "e", "r", "n">>
            ELSE IF Number(founded) /\ Hundredths(founded) > 201500 /\ Tech(industry)
            THEN <<"m", "o", "d", "e", "r", "n">>
            ELSE IF _search_themes(themes, Keywords.TRANSFORMATION_KEYWORDS)
            THEN <<"m", "o", "d", "e", "r", "n", "i", "z", "i", "n", "g">>
            ELSE IF _search_themes(themes, Keywords.AI_CLOUD_KEYWORDS)
            THEN <<"m", "o", "d", "e", "r", "n", "i", "z", "i", "n", "g">>
            ELSE IF Number(founded) /\ Hundredths(founded) < 200000 /\ ~Tech(industry)
            THEN <<"t", "r", "a", "d", "i", "t", "i", "o", "n", "a", "l">>
            ELSE <<"m", "o", "d", "e", "r", "n", "i", "z", "i", "n", "g">>
        WithTags(tags) ==
            Cascade(tags, Items(Get(profile, "news_themes", None)),
                    LowerOf(Get(profile, "industry", None)),
                    Get(profile, "founded_year", None),
                    extract_tech_signals_from_tags(tags).maturity)
    IN  WithTags(Items(Get(profile, "company_tags", None)))

\* Lines 188-233.
infer_business_priority(profile) ==
    LET Items(v) == IF IsTruthy(v) THEN v.s ELSE <<>>
        LowerOf(v) == IF IsTruthy(v) THEN str_lower(v.s) ELSE <<>>
        Number(v) == IsTruthy(v) /\ v.t \in {"int", "float", "bool"}
        Hundredths(v) == IF v.t = "float" THEN v.n ELSE 100 * v.n
        Cascade(themes, articles, title, tags, growth_rate) ==
            IF \/ _search_themes(themes, Keywords.COST_KEYWORDS)
               \/ _search_articles(articles, Keywords.COST_KEYWORDS)
            THEN <<"r", "e", "d", "u", "c", "i", "n", "g", "_", "c", "o", "s", "t">>
            ELSE IF _search_text(title, Keywords.DATA_AI_ROLE_KEYWORDS)
            THEN <<"p", "r", "e", "p", "a", "r", "i", "n", "g", "_", "a", "i">>
            ELSE IF \/ _search_themes(themes, Keywords.AI_ADOPTION_KEYWORDS)
                    \/ _search_articles(articles, Keywords.AI_ADOPTION_KEYWORDS)
            THEN <<"p", "r", "e", "p", "a", "r", "i", "n", "g", "_", "a", "i">>
            ELSE IF _search_themes(tags, Keywords.AI_CLOUD_KEYWORDS)
            THEN <<"p", "r", "e", "p", "a", "r", "i", "n", "g", "_", "a", "i">>
            ELSE IF Number(growth_rate) /\ Hundredths(growth_rate) > 30
            THEN <<"i", "m", "p", "r", "o", "v", "i", "n", "g", "_", "p", "e", "r", "f", "o", "r", "m", "a", "n", "c", "e">>
            ELSE IF \/ _search_themes(themes, Keywords.GROWTH_KEYWORDS)
                    \/ _search_articles(articles, Keywords.GROWTH_KEYWORDS)
            THEN <<"i", "m", "p", "r", "o", "v", "i", "n", "g", "_", "p", "e", "r", "f", "o", "r", "m", "a", "n", "c", "e">>
            ELSE <<"p", "r", "e", "p", "a", "r", "i", "n", "g", "_", "a", "i">>
    IN  Cascade(Items(Get(profile, "news_themes", None)),
                Items(Get(profile, "recent_news", None)),
                LowerOf(Get(profile, "title", None)),
                Items(Get(profile, "company_tags", None)),
                Get(profile, "employee_growth_rate", None))

\* Lines 236-284.
infer_challenge(profile) ==
    LET Items(v) == IF IsTruthy(v) THEN v.s ELSE <<>>
        LowerOf(v) == IF IsTruthy(v) THEN str_lower(v.s) ELSE <<>>
        Number(v) == IsTruthy(v) /\ v.t \in {"int", "float", "bool"}
        Hundredths(v) == IF v.t = "float" THEN v.n ELSE 100 * v.n
        Cascade(industry, founded, employee_count, articles, themes) ==
            IF \E ind \in {<<"h", "e", "a", "l", "t", "h">>, <<"f", "i", "n", "a", "n", "c", "i", "a", "l">>, <<"b", "a", "n", "k", "i", "n", "g">>, <<"i", "n", "s", "u", "r", "a", "n", "c", "e">>, <<"p", "h", "a", "r", "m", "a">>} :
                   str_contains(ind, industry)
            THEN <<"d", "a", "t", "a", "_", "g", "o", "v", "e", "r", "n", "a", "n", "c", "e">>
            ELSE IF \/ _search_articles(articles, Keywords.TALENT_KEYWORDS)
                    \/ _search_themes(themes, Keywords.TALENT_KEYWORDS)
            THEN <<"s", "k", "i", "l", "l", "s", "_", "g", "a", "p">>
            ELSE IF Number(employee_count) /\ Hundredths(employee_count) < 20000
            THEN <<"r", "e", "s", "o", "u", "r", "c", "e", "_", "c", "o", "n", "s", "t", "r", "a", "i", "n", "t", "s">>
            ELSE IF \/ _search_articles(articles, Keywords.INTEGRATION_KEYWORDS)
                    \/ _search_themes(themes, Keywords.INTEGRATION_KEYWORDS)
            THEN <<"i", "n", "t", "e", "g", "r", "a", "t", "i", "o", "n", "_", "f", "r", "i", "c", "t", "i", "o", "n">>
            ELSE IF /\ Number(founded)
                    /\ Hundredths(founded) < 200500
                    /\ industry \notin {<<"t", "e", "c", "h", "n", "o", "l", "o", "g", "y">>, <<"s", "o", "f", "t", "w", "a", "r", "e">>, <<"s", "a", "a", "s">>, <<"c", "l", "o", "u", "d">>}
            THEN <<"l", "e", "g", "a", "c", "y", "_", "s", "y", "s", "t", "e", "m", "s">>
            ELSE <<"l", "e", "g", "a", "c", "y", "_", "s", "y", "s", "t", "e", "m", "s">>
    IN  Cascade(LowerOf(Get(profile, "industry", None)),
                Get(profile, "founded_year", None),
                Get(profile, "employee_count", None),
                Items(Get(profile, "recent_news", None)),
                Items(Get(profile, "news_themes", None)))

\* Lines 287-322.
infer_urgency_level(profile) ==
    LET Number(v) == IsTruthy(v) /\ v.t \in {"int", "float", "bool"}
        Hundredths(v) == IF v.t = "float" THEN v.n ELSE 100 * v.n
        Cascade(growth_rate, funding_stage, total_funding, employee_count) ==
            IF Number(growth_rate) /\ Hundredths(growth_rate) > 40 THEN <<"h", "i", "g", "h">>
            ELSE IF IsTruthy(funding_stage) /\ IsTruthy(total_funding) THEN <<"h", "i", "g", "h">>
            ELSE IF Number(growth_rate) /\ Hundredths(growth_rate) < 0 THEN <<"l", "o", "w">>
            ELSE IF /\ Number(employee_count)
                    /\ Hundredths(employee_count) < 10000
                    /\ \/ ~IsTruthy(growth_rate)
                       \/ (growth_rate.t \in {"int", "float", "bool"}
                           /\ Hundredths(growth_rate) <= 0)
            THEN <<"l", "o", "w">>
            ELSE <<"m", "e", "d", "i", "u", "m">>
    IN  Cascade(Get(profile, "employee_growth_rate", None),
                Get(profile, "latest_funding_stage", None),
                Get(profile, "total_funding", None),
                Get(profile, "employee_count", None))

\* Lines 325-358.
infer_journey_stage(profile) ==
    LET Items(v) == IF IsTruthy(v) THEN v.s ELSE <<>>
        LowerOf(v) == IF IsTruthy(v) THEN str_lower(v.s) ELSE <<>>
        Cascade(seniority, title, articles, funding_stage) ==
            IF /\ \/ seniority \in {<<"c", "_", "s", "u", "i", "t", "e">>, <<"c", "x", "o">>}
                  \/ \E role \in {<<"c", "e", "o">>, <<"c", "t", "o">>, <<"c", "i", "o">>, <<"c", "f", "o">>, <<"c", "i", "s", "o">>, <<"c", "o", "o">>, <<"c", "h", "i", "e", "f">>} :
                         str_contains(role, title)
               /\ _search_articles(articles, Keywords.INVESTMENT_KEYWORDS)
            THEN <<"d", "e", "c", "i", "s", "i", "o", "n">>
            ELSE IF _search_articles(articles, Keywords.PILOT_KEYWORDS)
            THEN <<"i", "m", "p", "l", "e", "m", "e", "n", "t", "a", "t", "i", "o", "n">>
            ELSE IF IsTruthy(funding_stage) THEN <<"c", "o", "n", "s", "i", "d", "e", "r", "a", "t", "i", "o", "n">>
            ELSE <<"c", "o", "n", "s", "i", "d", "e", "r", "a", "t", "i", "o", "n">>
    IN  Cascade(LowerOf(Get(profile, "seniority", None)),
                LowerOf(Get(profile, "title", None)),
                Items(Get(profile, "recent_news", None)),
                Get(profile, "latest_funding_stage", None))

\* A confidence that counts the truthy signals among the fields the
\* profile supplies, whatever their number, instead of among the 11 signals.
_calculate_confidence_of_supplied(profile) ==
    LET present == Cardinality({ key \in DOMAIN profile : IsTruthy(profile[key]) })
        supplied == Cardinality(DOMAIN profile)
    IN  IF supplied = 0 THEN 22 ELSE 22 + (77 * present) \div supplied

\* Lines 361-390.  The score is held in 110ths, where the arithmetic of
\* the code is exact: 0.2 is 22, one signal of the 11 is worth 0.7 / 11,
\* that is 7, the bonus 0.1 is 11 and 1.0 is 110.  The floating-point
\* operations of the code round each of these to the nearest double,
\* which keeps their order.
_calculate_confidence(profile) ==
    LET signals == <<"company_tags", "news_themes", "recent_news", "founded_year",
                     "employee_count", "employee_growth_rate", "latest_funding_stage",
                     "title", "seniority", "industry", "company_summary">>
        present == Cardinality({ i \in DOMAIN signals :
                                   IsTruthy(Get(profile, signals[i], None)) })
        news == Get(profile, "recent_news", Val("list", <<>>, 0, ""))
        score == 22 + ((present * 77) \div Len(signals))
                 + (IF news.t = "list" /\ news.n >= 3 THEN 11 ELSE 0)
    IN  IF score < 110 THEN score ELSE 110

\* Lines 393-440.  user_goal is None or a str; round(confidence, 2) turns
\* the 110ths of _calculate_confidence into the nearest hundredth (no
\* score lies halfway between two).
infer_context(profile, user_goal) ==
    LET Result(tags, confidence) ==
            [it_environment |-> infer_it_environment(profile),
             business_priority |-> infer_business_priority(profile),
             primary_challenge |-> infer_challenge(profile),
             urgency_level |-> infer_urgency_level(profile),
             journey_stage |->
                 IF IsTruthy(user_goal) /\ str_strip(user_goal.s) # <<>>
                 THEN user_goal.s
                 ELSE infer_journey_stage(profile),
             confidence_score |-> (20 * confidence + 11) \div 22]
            @@ (IF tags # <<>>
                THEN [tech_signals |-> extract_tech_signals_from_tags(tags)]
                ELSE EmptyDict)
        Tags(v) == IF IsTruthy(v) THEN v.s ELSE <<>>
    IN  Result(Tags(Get(profile, "company_tags", None)), _calculate_confidence(profile))

(***************************************************************************)
(* PART V : supabase_client.py, the finalize_data table, and the news      *)
(* cache in front of the GNews fetch                                       *)
(***************************************************************************)

\* The rows the finalize_data table holds at most.
MaxWrites == 3

\* The max-age window of the news cache, in readings of the clock.
NewsMaxAge == 2

\* The cached news entry of a domain is fresh: it was fetched within the
\* max-age window.
get_cached_news(domain) ==
    IF /\ domain \in DOMAIN db_news_cache
       /\ db_clock - db_news_cache[domain].fetched_at <= NewsMaxAge
    THEN db_news_cache[domain].payload
    ELSE None

\* A SupabaseClient is in use: the finalize_data table is empty.
StoreInit ==
    /\ db_clock = NewsMaxAge + 1
    /\ db_finalize = <<>>
    /\ db_read = [email |-> "", state |-> "none"]
    /\ db_news_cache = EmptyDict
    /\ db_fetch = [domain |-> "", state |-> "none"]
    /\ ERIdle
    /\ RADIdle
    /\ BatchIdle
    /\ LLMIdle
    /\ FnIdle

\* An orchestrator is in use: the news cache holds for each domain no
\* entry, a stale one or a fresh one.
NewsInit ==
    /\ db_clock = NewsMaxAge + 1
    /\ db_finalize = <<>>
    /\ db_read = [email |-> "", state |-> "none"]
    /\ \E cached \in SUBSET {"acme.com", "globex.io"} :
           db_news_cache \in
               [cached -> [payload : {Payload(None, FALSE,
                                              [answer |-> Val("str", <<"c", "a", "c", "h", "e", "d">>, 0, "gnews")])},
                           fetched_at : {0, NewsMaxAge}]]
    /\ db_fetch = [domain |-> "", state |-> "none"]
    /\ ERIdle
    /\ RADIdle
    /\ BatchIdle
    /\ LLMIdle
    /\ FnIdle


\* datetime.utcnow(): the wall clock read again gives the reading before
\* or a later one.
UtcNow == {db_clock, db_clock + 1}

\* Lines 159-196: the row is stamped with the client's clock and inserted;
\* an insert that raises leaves the table as it was.
write_finalize_data(email, normalized_data) ==
    /\ Len(db_finalize) < MaxWrites
    /\ \E now \in UtcNow, inserted \in BOOLEAN :
           /\ now <= NewsMaxAge + 1 + MaxWrites
           /\ db_clock' = now
           /\ db_finalize' =
                  IF inserted
                  THEN Append(db_finalize,
                              [email |-> email, normalized_data |-> normalized_data,
                               resolved_at |-> now])
                  ELSE db_finalize
    /\ UNCHANGED <<db_read, db_news_cache, db_fetch>>
    /\ UNCHANGED outside_db

\* Lines 198-213: select("*").eq("email", email).order("resolved_at",
\* desc=True).limit(1) gives a row of the email that no other row of the
\* email is after by resolved_at; which one of several such rows is left
\* to the database.
LatestByResolvedAt(email) ==
    { db_finalize[j] :
        j \in { i \in DOMAIN db_finalize :
                  /\ db_finalize[i].email = email
                  /\ \A m \in DOMAIN db_finalize :
                         db_finalize[m].email = email
                         => db_finalize[m].resolved_at <= db_finalize[i].resolved_at } }

\* Lines 198-213: the first row of the query, None where the query has no
\* row, and None where the query raises.
get_finalize_data(email) ==
    /\ \/ /\ LatestByResolvedAt(email) = {}
          /\ db_read' = [email |-> email, state |-> "returned", data |-> None]
       \/ \E row \in LatestByResolvedAt(email) :
              db_read' = [email |-> email, state |-> "returned", data |-> row]
       \/ db_read' = [email |-> email, state |-> "raised", data |-> None]
    /\ UNCHANGED <<db_clock, db_finalize, db_news_cache, db_fetch>>
    /\ UNCHANGED outside_db

\* rad_orchestrator.py, lines 296-313, with the state of the cache at the
\* call: the GNews API is called whenever the orchestrator has it, and
\* the cache is neither read nor written.
FetchGnewsWithName(domain) ==
    /\ \E apis \in {{"gnews"}, {}}, outcome \in ApiOutcomes("gnews") :
           db_fetch' = [domain |-> domain, state |-> "returned", apis |-> apis,
                        cached |-> get_cached_news(domain),
                        called |-> "gnews" \in apis,
                        result |-> _fetch_gnews_with_name(apis, outcome)]
    /\ UNCHANGED <<db_clock, db_finalize, db_read, db_news_cache>>
    /\ UNCHANGED outside_db

\* Time passes between two fetches.
NewsTick ==
    /\ db_clock <= 2 * NewsMaxAge
    /\ db_clock' = db_clock + 1
    /\ UNCHANGED <<db_finalize, db_read, db_news_cache, db_fetch>>
    /\ UNCHANGED outside_db

StoreNext ==
    \/ \E email \in {"ada@acme.com", "bob@globex.io"}, normalized_data \in {"first", "second"} :
           write_finalize_data(email, normalized_data)
    \/ \E email \in {"ada@acme.com", "bob@globex.io"} : get_finalize_data(email)

SpecStore == StoreInit /\ [][StoreNext]_vars

NewsNext ==
    \/ \E domain \in {"acme.com", "globex.io"} : FetchGnewsWithName(domain)
    \/ NewsTick

SpecNews == NewsInit /\ [][NewsNext]_vars

(***************************************************************************)
(* The functions of the code called on their own.                          *)
(***************************************************************************)

\* The payloads tried for the sources of a field mapping: each source
\* answers with an error payload, a payload flagged "_mock", a payload
\* holding every source field of the mapping, one holding "" for each, one
\* holding 0 for each, or one that lacks the first of its source fields.
\* A value carries the name of its source field and of its source.
MappingRawData(sources) ==
    LET names == { sources[i][1] : i \in DOMAIN sources }
        keys(source) == { sources[i][2] : i \in { j \in DOMAIN sources : sources[j][1] = source } }
        first(source) ==
            sources[CHOOSE i \in DOMAIN sources :
                        /\ sources[i][1] = source
                        /\ \A j \in 1..(i - 1) : sources[j][1] # source][2]
        payload(source, kind) ==
            CASE kind = "error" -> ErrorPayload(<<"x">>)
              [] kind = "mock" ->
                     Payload(None, TRUE, [k \in keys(source) |-> Val("str", <<k>>, 0, source)])
              [] kind = "real" ->
                     Payload(None, FALSE, [k \in keys(source) |-> Val("str", <<k>>, 0, source)])
              [] kind = "empty" ->
                     Payload(None, FALSE, [k \in keys(source) |-> Val("str", <<>>, 0, source)])
              [] kind = "zero" ->
                     Payload(None, FALSE, [k \in keys(source) |-> Val("int", <<>>, 0, source)])
              [] kind = "partial" ->
                     Payload(None, FALSE, [k \in keys(source) \ {first(source)} |->
                                              Val("str", <<k>>, 0, source)])
    IN  { [source \in names |-> payload(source, kinds[source])] :
          kinds \in [names -> {"error", "mock", "real", "empty", "zero", "partial"}] }

\* self._resolve_profile(email, domain, raw_data) on an orchestrator whose
\* self.data_sources holds data_sources: the arguments tried.
ProfileCalls ==
    { [data_sources |-> data_sources, email |-> in.email, domain |-> in.domain,
       raw_data |-> raw_data] :
      data_sources \in { <<>>, <<"apollo", "hunter">> },
      in \in { in \in EnrichInputs : in.domain # <<>> }
             \cup { [email |-> <<"b", "o", "b", "@", "a", "c", "m", "e", ".", "c", "o", "m">>, domain |-> <<"a", "c", "m", "e", ".", "c", "o", "m">>] },
      raw_data \in BatchFetches }

\* A _resolve_profile that puts the email of the call into the profile.
resolve_profile_stamped(data_sources, email, domain, raw_data) ==
    ("email" :> Val("str", email, 0, "")) @@ _resolve_profile(raw_data)

\* Lines 345-438 as a method of the orchestrator: the body reads neither
\* self.data_sources nor any other attribute, nor email, nor domain.
resolve_profile(data_sources, email, domain, raw_data) ==
    _resolve_profile(raw_data)

\* The calls tried, by function.
FnInputs ==
    LET Calls(fn, args) == { [fn |-> fn, calls |-> <<a>>] : a \in args }
        domains == { <<"a", "c", "m", "e", ".", "c", "o", "m">>, <<"g", "l", "o", "b", "e", "x", "-", "l", "a", "b", "s", ".", "i", "o">> }
        \* Profiles P1 and P2 for _calculate_confidence, P2 being P1 plus
        \* fields that P1 lacks or holds as None: three signals and
        \* recent_news go through absent, None, a falsy value and a truthy
        \* one (recent_news: 1 and 3 articles), the 7 other signals are
        \* all absent or all present.
        article == [t |-> "dict", fields |-> [title |-> Val("str", <<"n", "e", "w", "s">>, 0, "")]]
        Value(key, kind) ==
            CASE kind = "none" -> None
              [] kind = "falsy" /\ key = "founded_year" -> Val("int", <<>>, 0, "")
              [] kind = "falsy" /\ key = "title" -> Val("str", <<>>, 0, "")
              [] kind = "falsy" -> Val("list", <<>>, 0, "")
              [] kind = "truthy" /\ key = "founded_year" -> Val("int", <<>>, 1990, "")
              [] kind = "truthy" /\ key = "title" -> Val("str", <<"c", "t", "o">>, 0, "")
              [] kind = "truthy" /\ key = "company_tags" ->
                     Val("list", <<Val("str", <<"e", "r", "p">>, 0, "")>>, 1, "")
              [] kind = "truthy" -> Val("list", <<article>>, 1, "")
              [] kind = "three" -> Val("list", <<article, article, article>>, 3, "")
        Field(key, kind) == IF kind = "absent" THEN EmptyDict ELSE key :> Value(key, kind)
        Others(present) ==
            IF present
            THEN [key \in {"news_themes", "employee_count", "employee_growth_rate",
                           "latest_funding_stage", "seniority", "industry",
                           "company_summary"} |-> Val("int", <<>>, 1, "")]
            ELSE EmptyDict
        Signals(kinds) ==
            Field("company_tags", kinds[1]) @@ Field("founded_year", kinds[2])
            @@ Field("title", kinds[3]) @@ Field("recent_news", kinds[4])
            @@ Others(kinds[5])
        Kinds == {"absent", "none", "falsy", "truthy"}
        Added(k1, k2) == k2 = k1 \/ (k1 \in {"absent", "none"} /\ k2 \notin {"absent", "none"})
        ConfidencePairs ==
            { pair \in (Kinds \X Kinds \X Kinds \X (Kinds \cup {"three"}) \X BOOLEAN)
                       \X (Kinds \X Kinds \X Kinds \X (Kinds \cup {"three"}) \X BOOLEAN) :
                /\ \A i \in 1..4 : Added(pair[1][i], pair[2][i])
                /\ pair[1][5] => pair[2][5] }
        \* Profiles for infer_context: the fields read by the IT-environment
        \* and challenge cascades vary together, then those read by the
        \* priority, urgency and journey-stage cascades; user_goal is None,
        \* blank, a journey stage or another string.
        Str(s) == Val("str", s, 0, "")
        Integer(n) == Val("int", <<>>, n, "")
        Float(hundredths) == Val("float", <<>>, hundredths, "")
        List(items) == Val("list", items, Len(items), "")
        News(title) == [t |-> "dict", fields |-> [title |-> Str(title)]]
        Opt(key, values) == {EmptyDict} \cup { key :> v : v \in values }
        RecentNews ==
            Opt("recent_news",
                { List(<<News(<<"A", "c", "m", "e", " ", "r", "a", "i", "s", "e", "s", " ", "S", "e", "r", "i", "e", "s", " ", "B">>)>>),
                  List(<<Str(<<"n", "o", "t", "e">>), News(<<"G", "P", "U", " ", "p", "i", "l", "o", "t">>), News(<<"H", "i", "r", "i", "n", "g">>)>>) })
        ContextProfiles ==
            { tags @@ themes @@ news @@ industry @@ founded :
                tags \in Opt("company_tags",
                             { List(<<Str(<<"E", "R", "P">>)>>),
                               List(<<Str(<<"C", "l", "o", "u", "d", " ", "C", "o", "m", "p", "u", "t", "i", "n", "g">>), Str(<<"m", "a", "c", "h", "i", "n", "e", " ", "l", "e", "a", "r", "n", "i", "n", "g">>)>>),
                               List(<<Str(<<"k", "u", "b", "e", "r", "n", "e", "t", "e", "s">>)>>) }),
                themes \in Opt("news_themes",
                               { List(<<Str(<<"D", "i", "g", "i", "t", "a", "l", " ", "T", "r", "a", "n", "s", "f", "o", "r", "m", "a", "t", "i", "o", "n">>)>>),
                                 List(<<Str(<<"c", "o", "s", "t", " ", "r", "e", "d", "u", "c", "t", "i", "o", "n">>)>>),
                                 List(<<Str(<<"l", "e", "g", "a", "c", "y">>)>>) }),
                news \in RecentNews,
                industry \in Opt("industry", { Str(<<"T", "e", "c", "h", "n", "o", "l", "o", "g", "y">>), Str(<<"H", "e", "a", "l", "t", "h", "c", "a", "r", "e">>) }),
                founded \in Opt("founded_year", { Integer(1990), Integer(2020) }) }
            \cup
            { growth @@ count @@ funding @@ title @@ seniority @@ news :
                growth \in Opt("employee_growth_rate", { Float(-10), Float(35), Float(50) }),
                count \in Opt("employee_count", { Integer(50), Integer(5000) }),
                funding \in { EmptyDict,
                              ("latest_funding_stage" :> Str(<<"s", "e", "r", "i", "e", "s", "_", "b">>))
                              @@ ("total_funding" :> Integer(5000000)) },
                title \in Opt("title", { Str(<<"C", "T", "O">>), Str(<<"D", "a", "t", "a", " ", "A", "n", "a", "l", "y", "s", "t">>) }),
                seniority \in Opt("seniority", { Str(<<"c", "_", "s", "u", "i", "t", "e">>) }),
                news \in RecentNews }
        Goals == { None, Str(<<>>), Str(<<" ", " ">>), Str(<<"d", "e", "c", "i", "s", "i", "o", "n">>), Str(<<"b", "u", "y", "_", "n", "o", "w">>) }
        \* Payloads for the employee count: pdl_company holds a count (800
        \* or 0) or none and a range or none, zoominfo answers with a count,
        \* with mock data or with an error, apollo holds a company size or
        \* none.
        Src(source, v) == [v EXCEPT !.src = source]
        EmployeeRawData ==
            { [pdl_company |-> Payload(None, FALSE, count @@ range),
               zoominfo |-> zoominfo,
               apollo |-> Payload(None, FALSE, size)] :
                count \in Opt("employee_count",
                              { Src("pdl_company", Integer(800)), Src("pdl_company", Integer(0)) }),
                range \in Opt("employee_count_range",
                              { Src("pdl_company", Str(r)) :
                                r \in { <<"1", "0", "0", "1", "-", "5", "0", "0", "0">>, <<"1", "0", "0", "0", "1", "+">>, <<"u", "n", "k", "n", "o", "w", "n">> } }),
                zoominfo \in { ErrorPayload(<<"x">>),
                               Payload(None, TRUE, [employee_count |-> Src("zoominfo", Integer(100))]),
                               Payload(None, FALSE, [employee_count |-> Src("zoominfo", Integer(250))]) },
                size \in Opt("company_size",
                             { Src("apollo", Str(r)) : r \in { <<"5", "1", "-", "2", "0", "0">>, <<"5", "0", "0", "0", "+">> } }) }
        Ranges == { <<"1", "0", "0", "1", "-", "5", "0", "0", "0">>, <<"1", "0", "0", "0", "1", "+">>, <<"1", "0", ",", "0", "0", "1", "+">>, <<"5", "0", "0", "0", "+">>, <<"5", "1", "-", "2", "0", "0">>, <<"1", "-", "1", "0">>,
                    <<" ", "1", "1", " ", "-", " ", "5", "0", " ">>, <<"2", "5", "0">>, <<"u", "n", "k", "n", "o", "w", "n">>, <<"1", "-", "2", "-", "3">>, <<"+">>, <<"-", "5">>, <<>> }
    IN  UNION { Calls("_resolve_field",
                      { [field |-> field, sources |-> _get_field_mappings[field],
                         raw_data |-> raw_data] :
                        raw_data \in MappingRawData(_get_field_mappings[field]) }) :
                field \in DOMAIN _get_field_mappings }
        \cup Calls("_resolve_company_name",
                   { [raw_data |-> raw_data, domain |-> domain] :
                     raw_data \in MappingRawData(_get_field_mappings.company_name),
                     domain \in domains })
        \cup { [fn |-> "_resolve_profile", calls |-> <<first, second>>] :
                first \in ProfileCalls, second \in ProfileCalls }
        \cup { [fn |-> "_calculate_confidence",
                 calls |-> <<[profile |-> Signals(pair[1])], [profile |-> Signals(pair[2])]>>] :
                pair \in ConfidencePairs }
        \cup Calls("infer_context",
                   { [profile |-> profile, user_goal |-> user_goal] :
                     profile \in ContextProfiles, user_goal \in Goals })
        \cup Calls("_resolve_profile",
                   { [data_sources |-> <<>>, email |-> <<"a", "d", "a", "@", "a", "c", "m", "e", ".", "c", "o", "m">>,
                      domain |-> <<"a", "c", "m", "e", ".", "c", "o", "m">>, raw_data |-> raw_data] :
                     raw_data \in EmployeeRawData })
        \cup Calls("_estimate_employee_count_from_range",
                   { [range_str |-> Str(r)] : r \in Ranges } \cup { [range_str |-> None] })
        \cup Calls("select_case_study",
                   [stage : {"Observer", "Challenger", "Leader", ""},
                    priority : {"reducing_cost", "improving_performance", "preparing_ai", ""},
                    industry : {"technology", "healthcare", "financial_services",
                                "government", "retail", "manufacturing", ""},
                    challenge : {"legacy_systems", "skills_gap", "data_governance", ""}])
        \cup Calls("_normalize_industry",
                   { [raw_industry |-> Val("str", INDUSTRY_NORMALIZATION[k][col], 0, "apollo")] :
                     k \in DOMAIN INDUSTRY_NORMALIZATION, col \in {1, 2} })

\* A function of the code is about to be called with arguments.
FnInit ==
    /\ fn_in \in FnInputs
    /\ fn_out = <<>>
    /\ ERIdle
    /\ RADIdle
    /\ BatchIdle
    /\ LLMIdle
    /\ StoreIdle

\* The next call of fn_in is made and returns `result`.
FnReturn(fn, result) ==
    /\ fn_in.fn = fn
    /\ Len(fn_out) < Len(fn_in.calls)
    /\ fn_out' = Append(fn_out, result)
    /\ UNCHANGED fn_in
    /\ UNCHANGED outside_fn

\* The arguments of the next call.
FnArgs == fn_in.calls[Len(fn_out) + 1]

\* One call of a function with the arguments drawn for it.
FnNext ==
    \/ FnReturn("_resolve_field",
                _resolve_field(FnArgs.field, FnArgs.sources, FnArgs.raw_data))
    \/ FnReturn("_resolve_company_name",
                _resolve_company_name(FnArgs.raw_data, FnArgs.domain))
    \/ FnReturn("_resolve_profile",
                resolve_profile(FnArgs.data_sources, FnArgs.email, FnArgs.domain,
                                FnArgs.raw_data))
    \/ FnReturn("_normalize_industry", _normalize_industry(FnArgs.raw_industry))
    \/ FnReturn("_calculate_confidence", _calculate_confidence(FnArgs.profile))
    \/ FnReturn("infer_context", infer_context(FnArgs.profile, FnArgs.user_goal))
    \/ FnReturn("select_case_study",
                select_case_study(FnArgs.stage, FnArgs.priority, FnArgs.industry,
                                  FnArgs.challenge))
    \/ FnReturn("_estimate_employee_count_from_range",
                _estimate_employee_count_from_range(FnArgs.range_str))

SpecFn == FnInit /\ [][FnNext]_vars

(***************************************************************************)
(* Properties of the guardrail loop.                                       *)
(***************************************************************************)

HasContent(result) == ContentSections \subseteq DOMAIN result

Validated == er_pc = "done" /\ er_outcome \in {"validated", "retry_validated"}

\* The validator reports passed on the content, validated on its own.
PassesAlone(content) ==
    /\ HasContent(content)
    /\ ~ValidateRaises(content)
    /\ validate_executive_review_content(content, "", "", "") = {}

\* C1: generate_executive_review never raises and never ends without
\* content: every finished call ended as validated content or as
\* fallback/deterministic content and holds a content structure.
C1_AlwaysReturnsContent ==
    er_pc = "done" =>
        /\ er_outcome \in {"validated", "retry_validated", "fallback", "mock"}
        /\ HasContent(er_result)

\* C1 witnesses: the model raised in a retry, or the first response failed
\* validation by raising, and the call still returned content.
C1_Witness ==
    /\ er_pc = "done"
    /\ er_response = "api_error"
    /\ er_calls = 1 + max_retries
    /\ er_outcome = "fallback"
    /\ HasContent(er_result)

\* C2 as claimed: what the loop returns (validated, validated after a retry,
\* or with fallback sections) passes every per-field check (length and
\* word bounds, banned phrases, banned characters) when validated alone.
C2_ReturnedContentPassesFieldChecks ==
    (er_pc = "done" /\ er_outcome \in {"validated", "retry_validated", "fallback"}) =>
        /\ ~ValidateRaises(er_result)
        /\ FieldFailures(er_result) = {}

\* C3: one call makes at most 1 + max_retries model calls; while a retry
\* call is awaited the attempt count is below max_retries; a retry call
\* that raises, or the last attempt failing, ends the call with fallback.
C3_BoundedRetries ==
    /\ er_calls <= 1 + max_retries
    /\ er_pc = "retry" => (er_attempt < max_retries /\ er_calls = 1 + er_attempt)
    /\ (er_calls >= 2 /\ er_response = "api_error") =>
           (er_pc = "done" /\ er_outcome = "fallback")
    /\ (er_attempt = max_retries) => (er_pc = "done" /\ er_outcome = "fallback")

C3_Witness ==
    /\ er_pc = "done"
    /\ er_calls = 1 + max_retries
    /\ er_attempt = max_retries
    /\ er_response = "tool_use"
    /\ er_outcome = "fallback"

\* C4 as claimed: content returned as validated satisfies the blocking
\* personalization checks for the request's priority, challenge and
\* industry.
C4_ValidatedContentIsPersonalized ==
    Validated =>
        PersonalizationFailures(er_result, er_req.priority, er_req.challenge,
                                er_req.industry) = {}

\* C5 as claimed: the returned content has a non-empty executive summary
\* and at least one advantage, risk and recommendation.
C5_ReturnedContentNonEmpty ==
    er_pc = "done" =>
        /\ HasContent(er_result)
        /\ er_result.executive_summary.chars > 0
        /\ Len(er_result.advantages) >= 1
        /\ Len(er_result.risks) >= 1
        /\ Len(er_result.recommendations) >= 1

\* The company name occurs in no headline/title or description of an item
\* after the first.
NoNameAfterFirstItem(content) ==
    \A section_key \in ItemSections :
        \A i \in 2..Len(content[section_key]) :
            \A text \in ItemTexts(content[section_key][i]) : text.co = 0

\* C6 as claimed: in content the validator passes, the company name is in
\* no item after the first, for every non-empty company name.
C6_NoNameAfterFirst_AnyName ==
    (PassesAlone(er_result) /\ er_result.company_name.chars > 0) =>
        NoNameAfterFirstItem(er_result)

\* C6 amended: the same for every company name longer than two characters.
C6_NoNameAfterFirst_LongName ==
    (PassesAlone(er_result) /\ er_result.company_name.chars > 2) =>
        NoNameAfterFirstItem(er_result)

\* C6 witness: passing content of a company with a name longer than two
\* characters whose first advantage names the company.
C6_Witness ==
    /\ Validated
    /\ PassesAlone(er_result)
    /\ er_result.company_name.chars > 2
    /\ Len(er_result.advantages) = 2
    /\ er_result.advantages[1].description.co > 0

(***************************************************************************)
(* Properties of the enrichment.                                           *)
(***************************************************************************)

\* The payload carries the "_error" key.
ErrorTagged(data) == data.error.t # "none"

\* The payloads the Phase 1 tasks ended with, by source.
Phase1Payloads ==
    [source \in { phase1_tasks[i] : i \in DOMAIN phase1_tasks } |->
        rad_tasks[CHOOSE i \in DOMAIN phase1_tasks : phase1_tasks[i] = source].result]

\* C7 as claimed: every value in the profile that _resolve_profile built was
\* read from a payload that is flagged neither "_error" nor "_mock".
C7_ProfileValuesFromUsablePayloads ==
    rad_pc = "done" =>
        \A f \in DOMAIN rad_normalized.profile :
            rad_normalized.profile[f].t # "none" =>
                /\ rad_normalized.profile[f].src \in DOMAIN rad_raw_data
                /\ ~ErrorTagged(rad_raw_data[rad_normalized.profile[f].src])
                /\ ~rad_raw_data[rad_normalized.profile[f].src].mock

\* C8: once the gather of Phase 1 has returned, every Phase 1 task is done
\* (none was cancelled by another one failing), raw_data has exactly one
\* entry for each of apollo, pdl, pdl_company, hunter and zoominfo, and,
\* when enrich is done, one for gnews; each entry is what the source's task
\* ended with: the payload its provider returned or an error-tagged
\* payload.
C8_GatherCompletesWithEntryPerSource ==
    rad_pc \in {"phase2", "done"} =>
        /\ \A i \in DOMAIN rad_tasks : rad_tasks[i].state = "done"
        /\ DOMAIN rad_raw_data =
               {"apollo", "pdl", "pdl_company", "hunter", "zoominfo"}
               \cup (IF rad_pc = "done" THEN {"gnews"} ELSE {})
        /\ \A i \in DOMAIN phase1_tasks :
               rad_raw_data[phase1_tasks[i]] = rad_tasks[i].result
        /\ \A source \in DOMAIN rad_raw_data :
               \/ ErrorTagged(rad_raw_data[source])
               \/ \E o \in ApiOutcomes(source) :
                      o.exc = "" /\ rad_raw_data[source] = o.payload

\* C8 witness: enrich is done, one provider raised and three returned.
C8_Witness ==
    /\ rad_pc = "done"
    /\ ErrorTagged(rad_raw_data["apollo"])
    /\ rad_raw_data["apollo"].error.s # <<>>
    /\ rad_raw_data["apollo"].error.s # <<"U", "n", "k", "n", "o", "w", "n", " ", "s", "o", "u", "r", "c", "e">>
    /\ \A source \in {"pdl", "hunter", "zoominfo"} :
           /\ ~ErrorTagged(rad_raw_data[source])
           /\ DOMAIN rad_raw_data[source].fields # {}

\* C9: while a Phase 1 task is not done the news fetch has not started;
\* once it has started, every Phase 1 task is done and the company name it
\* was started with is the one resolved from the Phase 1 payloads.
C9_NewsAfterPhase1 ==
    /\ (\E i \in DOMAIN rad_tasks : rad_tasks[i].state \in {"created", "awaiting"}) =>
           rad_gnews.state = "none"
    /\ rad_gnews.state # "none" =>
           /\ \A i \in DOMAIN rad_tasks : rad_tasks[i].state = "done"
           /\ rad_gnews.company_name = _resolve_company_name(Phase1Payloads, rad_domain)

\* C9 witness: the news fetch is in flight with a company name read from
\* the apollo payload, after the pdl_company fetch failed.
C9_Witness ==
    /\ rad_pc = "phase2"
    /\ rad_gnews.state = "awaiting"
    /\ rad_gnews.company_name.src = "apollo"
    /\ ErrorTagged(rad_tasks[5].result)

\* C10 as claimed: when every fetch of the enrichment ended in an
\* error-tagged payload, enrich returns a profile with no field, no data
\* source and a quality score of 0.
C10_AllFailedGivesEmptyProfile ==
    (rad_pc = "done" /\ \A source \in DOMAIN rad_raw_data : ErrorTagged(rad_raw_data[source])) =>
        /\ DOMAIN rad_normalized.profile = {}
        /\ rad_normalized.data_sources = <<>>
        /\ rad_data_sources = <<>>
        /\ rad_normalized.data_quality_score = 0

(***************************************************************************)
(* Properties of enrich_batch.                                             *)
(***************************************************************************)

\* The coroutines whose enrich call has started and not yet returned.
InProgress == { i \in DOMAIN bat_tasks : bat_tasks[i].state = "fetching" }

\* C11: at no time are more than `concurrency` enrich calls of a batch in
\* progress.
C11_AtMostConcurrencyInProgress ==
    Cardinality(InProgress) <= bat_concurrency

\* C11 witness: with three emails and a semaphore of two, two enrich calls
\* are in progress and the third coroutine waits for the semaphore.
C11_Witness ==
    /\ bat_pc = "gather"
    /\ Len(bat_emails) = 3
    /\ bat_concurrency = 2
    /\ Cardinality(InProgress) = 2
    /\ bat_semaphore = 0
    /\ bat_tasks[3].state = "created"

\* C12: a batch that was started completes; what it returns has one entry
\* per email, in the order of the emails; the entry of an email is an
\* error entry exactly if its enrich call raised (the email has no "@"),
\* and every other entry holds the profile resolved from what that email's
\* own fetch returned.
C12_BatchIsolatesFailures ==
    /\ [](bat_pc = "done" =>
            /\ Len(bat_results) = Len(bat_emails)
            /\ \A i \in DOMAIN bat_emails :
                   /\ bat_results[i].email = bat_emails[i]
                   /\ bat_results[i].error.t # "none"
                          <=> Len(str_split(bat_emails[i], "@")) < 2
                   /\ bat_results[i].error.t = "none" =>
                          /\ bat_tasks[i].raw_data \in BatchFetches
                          /\ bat_results[i].profile = _resolve_profile(bat_tasks[i].raw_data))
    /\ (bat_pc = "start" ~> bat_pc = "done")

\* C12 witness: a batch of three with the failing email in the middle has
\* returned; the first and the third entry hold profiles.
C12_Witness ==
    /\ bat_pc = "done"
    /\ Len(bat_results) = 3
    /\ bat_concurrency = 2
    /\ bat_results[2].error.t = "str"
    /\ bat_results[1].error.t = "none"
    /\ bat_results[3].error.t = "none"
    /\ "first_name" \in DOMAIN bat_results[1].profile
    /\ bat_results[3].profile # bat_results[1].profile

(***************************************************************************)
(* Properties of generate_personalization.                                 *)
(***************************************************************************)

\* C13 as claimed: when every model call of a finished
\* generate_personalization call failed with a generation API error (rate
\* limit, timeout or other API error), the call returned the fallback
\* response and raised nothing.
C13_ApiErrorsEndInFallback ==
    (/\ llm_pc = "done"
     /\ llm_responses # <<>>
     /\ \A k \in DOMAIN llm_responses :
            llm_responses[k] \in {"RateLimitError", "APITimeoutError", "APIError"}) =>
        /\ llm_raised = "none"
        /\ llm_result = _fallback_response(llm_profile)

\* C14: a generate_personalization call makes at most MAX_RETRIES (3)
\* model calls, and after the third it has ended (returned or raised).
C14_AtMostMaxRetriesCalls ==
    /\ Len(llm_responses) <= 3
    /\ Len(llm_responses) = 3 => llm_pc = "done"

\* C14 witness: the call has ended after three model calls that were a
\* parse failure, a rate-limit error and a timeout.
C14_Witness ==
    /\ llm_pc = "done"
    /\ llm_responses = <<"unparsed", "RateLimitError", "APITimeoutError">>
    /\ llm_result = _fallback_response(llm_profile)

(***************************************************************************)
(* Properties of the functions called on their own.                        *)
(***************************************************************************)

\* The indices of `sources` whose payload in raw_data is flagged neither
\* "_error" nor "_mock" and holds a value for the source field that is
\* neither None nor "" (and, with truthy_only, is truthy).
Candidates(sources, raw_data, truthy_only) ==
    { i \in DOMAIN sources :
        /\ sources[i][1] \in DOMAIN raw_data
        /\ ~ErrorTagged(raw_data[sources[i][1]])
        /\ ~raw_data[sources[i][1]].mock
        /\ sources[i][2] \in DOMAIN raw_data[sources[i][1]].fields
        /\ LET value == raw_data[sources[i][1]].fields[sources[i][2]]
           IN  /\ value.t # "none"
               /\ value # Val("str", <<>>, 0, value.src)
               /\ truthy_only => IsTruthy(value) }

C16_FirstAvailableNameInFixedOrder ==
    \A k \in DOMAIN fn_out :
        fn_in.fn = "_resolve_company_name" =>
            LET call == fn_in.calls[k]
                order == << <<"pdl_company", "display_name">>, <<"pdl_company", "name">>,
                            <<"apollo", "company_name">>, <<"zoominfo", "company_name">>,
                            <<"pdl", "job_company_name">> >>
                available == Candidates(order, call.raw_data, TRUE)
            IN  IF available = {}
                THEN fn_out[k].s =
                         (IF call.domain = <<"a", "c", "m", "e", ".", "c", "o", "m">>
                          THEN <<"A", "c", "m", "e">>
                          ELSE <<"G", "l", "o", "b", "e", "x", "-", "L", "a", "b", "s">>)
                ELSE \E i \in available :
                         /\ \A j \in available : i <= j
                         /\ fn_out[k] = call.raw_data[order[i][1]].fields[order[i][2]]

\* C16 witness: pdl_company lacks display_name and holds name, apollo
\* holds a name too, and pdl_company's name was returned.
C16_Witness ==
    /\ fn_in.fn = "_resolve_company_name"
    /\ Len(fn_out) = 1
    /\ "display_name" \notin DOMAIN fn_in.calls[1].raw_data["pdl_company"].fields
    /\ fn_out[1] = Val("str", <<"name">>, 0, "pdl_company")
    /\ fn_in.calls[1].raw_data["apollo"].fields = [company_name |-> Val("str", <<"company_name">>, 0, "apollo")]
    /\ ~fn_in.calls[1].raw_data["apollo"].mock

C18_CanonicalIndustryUnchanged ==
    fn_in.fn = "_normalize_industry" =>
        \A k \in DOMAIN fn_out :
            (\E e \in DOMAIN INDUSTRY_NORMALIZATION :
                 INDUSTRY_NORMALIZATION[e][2] = fn_in.calls[k].raw_industry.s)
            => fn_out[k] = fn_in.calls[k].raw_industry

\* C18 witness: "technology", a canonical industry that is no pattern of
\* the table and contains none, was normalised and came back.
C18_Witness ==
    /\ fn_in.fn = "_normalize_industry"
    /\ Len(fn_out) = 1
    /\ fn_in.calls[1].raw_industry.s = <<"t", "e", "c", "h", "n", "o", "l", "o", "g", "y">>
    /\ \A e \in DOMAIN INDUSTRY_NORMALIZATION :
           ~str_contains(INDUSTRY_NORMALIZATION[e][1], fn_in.calls[1].raw_industry.s)
    /\ fn_out[1].s = <<"t", "e", "c", "h", "n", "o", "l", "o", "g", "y">>

\* C19: the confidence of a profile P2 that is a profile P1 plus fields
\* that are not None is at least the confidence of P1, and no confidence
\* is above 1.0 (110 in 110ths).
C19_ConfidenceMonotoneAndCapped ==
    fn_in.fn = "_calculate_confidence" =>
        /\ \A k \in DOMAIN fn_out : fn_out[k] <= 110
        /\ \A k, m \in DOMAIN fn_out :
               (LET P1 == fn_in.calls[k].profile
                    P2 == fn_in.calls[m].profile
                IN  /\ DOMAIN P1 \subseteq DOMAIN P2
                    /\ \A key \in DOMAIN P1 : P1[key] = P2[key] \/ P1[key] = None
                    /\ \A key \in DOMAIN P2 \ DOMAIN P1 : P2[key] # None)
               => fn_out[k] <= fn_out[m]

\* C19 witness: P2 is P1 plus a founded_year of 0 and three articles of
\* news; P1 scored the base 0.2 and P2 more.
C19_Witness ==
    /\ fn_in.fn = "_calculate_confidence"
    /\ Len(fn_out) = 2
    /\ DOMAIN fn_in.calls[1].profile = {"title"}
    /\ fn_in.calls[1].profile["title"] = None
    /\ DOMAIN fn_in.calls[2].profile = {"title", "founded_year", "recent_news"}
    /\ fn_in.calls[2].profile["founded_year"].n = 0
    /\ fn_in.calls[2].profile["recent_news"].n = 3
    /\ fn_out[1] = 22
    /\ fn_out[2] = 40

\* The categorical attributes of `attributes` hold, in an infer_context
\* result, a value of their enumeration.
InEnumeration(result, attributes) ==
    LET Enumeration ==
            [it_environment |-> {<<"t", "r", "a", "d", "i", "t", "i", "o", "n", "a", "l">>, <<"m", "o", "d", "e", "r", "n", "i", "z", "i", "n", "g">>, <<"m", "o", "d", "e", "r", "n">>},
             business_priority |->
                 {<<"r", "e", "d", "u", "c", "i", "n", "g", "_", "c", "o", "s", "t">>, <<"i", "m", "p", "r", "o", "v", "i", "n", "g", "_", "p", "e", "r", "f", "o", "r", "m", "a", "n", "c", "e">>, <<"p", "r", "e", "p", "a", "r", "i", "n", "g", "_", "a", "i">>},
             primary_challenge |->
                 {<<"l", "e", "g", "a", "c", "y", "_", "s", "y", "s", "t", "e", "m", "s">>, <<"i", "n", "t", "e", "g", "r", "a", "t", "i", "o", "n", "_", "f", "r", "i", "c", "t", "i", "o", "n">>, <<"r", "e", "s", "o", "u", "r", "c", "e", "_", "c", "o", "n", "s", "t", "r", "a", "i", "n", "t", "s">>,
                  <<"s", "k", "i", "l", "l", "s", "_", "g", "a", "p">>, <<"d", "a", "t", "a", "_", "g", "o", "v", "e", "r", "n", "a", "n", "c", "e">>},
             urgency_level |-> {<<"l", "o", "w">>, <<"m", "e", "d", "i", "u", "m">>, <<"h", "i", "g", "h">>},
             journey_stage |->
                 {<<"a", "w", "a", "r", "e", "n", "e", "s", "s">>, <<"c", "o", "n", "s", "i", "d", "e", "r", "a", "t", "i", "o", "n">>, <<"d", "e", "c", "i", "s", "i", "o", "n">>, <<"i", "m", "p", "l", "e", "m", "e", "n", "t", "a", "t", "i", "o", "n">>}]
    IN  \A a \in attributes : result[a] \in Enumeration[a]

\* C20: in every result of infer_context, for every profile and every
\* user_goal, it_environment, business_priority, primary_challenge,
\* urgency_level and journey_stage each hold a value of their enumeration.
C20_CategoricalAttributesInEnumeration ==
    fn_in.fn = "infer_context" =>
        \A k \in DOMAIN fn_out :
            InEnumeration(fn_out[k], {"it_environment", "business_priority",
                                      "primary_challenge", "urgency_level",
                                      "journey_stage"})

\* What the code does keep: the four inferred attributes always, and the
\* journey stage when user_goal is None, blank or itself a journey stage.
InferredAttributesInEnumeration ==
    fn_in.fn = "infer_context" =>
        \A k \in DOMAIN fn_out :
            /\ InEnumeration(fn_out[k], {"it_environment", "business_priority",
                                         "primary_challenge", "urgency_level"})
            /\ fn_in.calls[k].user_goal.s # <<"b", "u", "y", "_", "n", "o", "w">>
                   => InEnumeration(fn_out[k], {"journey_stage"})

\* The estimates the specification gives for range strings: the midpoint
\* of a closed range, 1.5 times the base of an open-ended one.
ExpectedEstimate ==
    (<<"1", "0", "0", "1", "-", "5", "0", "0", "0">> :> 3000) @@ (<<"1", "0", "0", "0", "1", "+">> :> 15000) @@ (<<"5", "0", "0", "0", "+">> :> 7500)
    @@ (<<"5", "1", "-", "2", "0", "0">> :> 125) @@ (<<"1", "-", "1", "0">> :> 5)

\* The employee counts that the sources of raw_data report themselves, in
\* payloads that are neither errors nor mock: all of them, or the truthy
\* ones only.
DirectCounts(raw_data, truthy_only) ==
    { raw_data[source].fields["employee_count"] :
      source \in { s \in DOMAIN raw_data :
                     /\ NoError(raw_data[s])
                     /\ ~raw_data[s].mock
                     /\ Get(raw_data[s].fields, "employee_count", None).t = "int"
                     /\ truthy_only => IsTruthy(raw_data[s].fields["employee_count"]) } }

\* The range string of a profile: employee_count_range, or the company
\* size where there is none.
RangeString(profile) ==
    IF IsTruthy(Get(profile, "employee_count_range", None))
    THEN profile["employee_count_range"]
    ELSE Get(profile, "company_size", None)

\* C21: a range string is estimated as the midpoint of a closed range
\* ("1001-5000" gives 3000) and 1.5 times the base of an open-ended one
\* ("10001+" gives 15000); a profile without a direct count from a source
\* gets the estimate of its range string and is flagged as estimated, and
\* a profile with a direct count holds a count of a source, unflagged.
C21_EmployeeCountEstimate ==
    /\ fn_in.fn = "_estimate_employee_count_from_range" =>
           \A k \in DOMAIN fn_out :
               fn_in.calls[k].range_str.s \in DOMAIN ExpectedEstimate
               => fn_out[k].n = ExpectedEstimate[fn_in.calls[k].range_str.s]
    /\ fn_in.fn = "_resolve_profile" =>
           \A k \in DOMAIN fn_out :
               IF DirectCounts(fn_in.calls[k].raw_data, TRUE) # {}
               THEN /\ fn_out[k]["employee_count"]
                          \in DirectCounts(fn_in.calls[k].raw_data, FALSE)
                    /\ "employee_count_estimated" \notin DOMAIN fn_out[k]
               ELSE RangeString(fn_out[k]).s \in DOMAIN ExpectedEstimate =>
                    /\ fn_out[k]["employee_count"].n =
                           ExpectedEstimate[RangeString(fn_out[k]).s]
                    /\ fn_out[k]["employee_count_estimated"].n = 1

\* C22: select_case_study returns the Smurfit Westrock case study whenever
\* priority is "reducing_cost", whatever the stage, industry and challenge.
C22_ReducingCostSelectsSmurfitWestrock ==
    fn_in.fn = "select_case_study" =>
        \A k \in DOMAIN fn_out :
            fn_in.calls[k].priority = "reducing_cost"
            => fn_out[k] = CASE_STUDIES.smurfit_westrock

\* C22 witness: the industry, challenge and stage rules all point to PQR,
\* the priority is reducing_cost, and Smurfit Westrock was returned.
C22_Witness ==
    /\ fn_in.fn = "select_case_study"
    /\ Len(fn_out) = 1
    /\ fn_in.calls[1] = [stage |-> "Leader", priority |-> "reducing_cost",
                         industry |-> "healthcare", challenge |-> "skills_gap"]
    /\ fn_out[1] = "Smurfit Westrock Saves AWS Costs for Innovation with AMD"

\* The row of the latest write_finalize_data that inserted for the email.
LatestWritten(email) ==
    db_finalize[CHOOSE j \in DOMAIN db_finalize :
                    /\ db_finalize[j].email = email
                    /\ \A m \in DOMAIN db_finalize :
                           db_finalize[m].email = email => m <= j]

\* C23: whatever write_finalize_data calls were made for an email,
\* get_finalize_data returns the record of the most recent of them, never
\* that of an earlier one.
C23_ReadReturnsLatestWrite ==
    [][\A email \in {"ada@acme.com", "bob@globex.io"} :
          (/\ get_finalize_data(email)
           /\ db_read'.state = "returned"
           /\ \E j \in DOMAIN db_finalize : db_finalize[j].email = email)
          => db_read'.data.normalized_data = LatestWritten(email).normalized_data]_vars

\* C24: a fetch for a domain whose cached news entry is fresh returns the
\* cached payload and makes no call of the GNews API; a fetch for a domain
\* whose entry is missing or too old calls the API and leaves its result in
\* the cache.
C24_FreshCacheAvoidsApiCall ==
    [][\A domain \in {"acme.com", "globex.io"} :
          (FetchGnewsWithName(domain) /\ "gnews" \in db_fetch'.apis)
          => IF get_cached_news(domain) # None
             THEN /\ db_fetch'.result = get_cached_news(domain)
                  /\ ~db_fetch'.called
             ELSE /\ db_fetch'.called
                  /\ domain \in DOMAIN db_news_cache'
                  /\ db_news_cache'[domain].payload = db_fetch'.result]_vars

\* C25: in a batch, the data_sources list of every profile an enrich call
\* has returned holds exactly the sources that gave that call a payload
\* without error, in every interleaving and at every later moment.
C25_DataSourcesAreTheCallsOwn ==
    \A i \in DOMAIN bat_tasks :
        (bat_tasks[i].state = "done" /\ bat_tasks[i].result.error = None)
        => bat_lists[bat_tasks[i].result.data_sources]
               = SelectSeq(source_names \o <<"gnews">>,
                           LAMBDA s : NoError(bat_tasks[i].raw_data[s]))

\* C26: a retry attempt changes a section of the content only if the
\* latest validation result holds a failure of that section; the sections
\* that pass at the time of the attempt come out of it as they went in.
C26_RetryReplacesOnlyFailingSections ==
    [][(/\ er_pc = "retry"
        /\ er_response' = "tool_use"
        /\ er_pc' = "retry" \/ er_outcome' = "retry_validated")
       => \A section \in ContentSections :
              er_result'[section] # er_result[section]
              => section \in FailingSections(er_failures)]_vars

\* What fallback made of a result: the sections with a failure hold the
\* content of the selected example, every other key holds what it held.
FallbackFrame(before, failures, after) ==
    /\ DOMAIN after = DOMAIN before
    /\ \A k \in DOMAIN before :
           IF k \in FailingSections(failures)
           THEN /\ k \in ContentSections
                /\ after[k] = fallback_to_example(er_req.company_name, er_req.stage, er_req.industry,
                                                  er_req.priority, er_req.challenge)[k]
           ELSE after[k] = before[k]

\* C27: fallback replaces exactly the sections named in the latest
\* validation failures by the selected example's content, and leaves every
\* other section and the company name, stage and case study as they were.
C27_FallbackReplacesExactlyFailingSections ==
    [][(er_pc = "retry" /\ er_outcome' = "fallback")
       => IF er_response' = "tool_use"
          THEN \E retry_data \in ToolInputs(er_req, er_failing_sections) :
                   FallbackFrame(MergeRetry(er_result, er_failing_sections, retry_data),
                                 er_failures', er_result')
          ELSE FallbackFrame(er_result, er_failures', er_result')]_vars

\* Fallback was applied after retries that left one section failing and
\* another one, regenerated, passing.
C27_Witness ==
    /\ er_outcome = "fallback"
    /\ FailingSections(er_failures) # {}
    /\ FailingSections(er_failures) # er_failing_sections
    /\ er_result.company_name = er_req.company_name

\* The texts of one section of a result.
SectionTexts(value) ==
    IF DOMAIN value = DOMAIN EmptyText
    THEN {value}
    ELSE UNION { ItemTexts(value[i]) : i \in DOMAIN value }

\* C28: for a company whose name is not the selected example's, no text of
\* any item of any section of the fallback content holds the example's
\* company name.
C28_FallbackContentHasNoExampleName ==
    (/\ er_outcome = "fallback"
     /\ er_req.company_name.name
            # BestExample(PoolGet(er_req.stage), er_req.industry, er_req.priority,
                          er_req.challenge).profile.company.name)
    => \A section \in FailingSections(er_failures) :
           \A text \in SectionTexts(er_result[section]) : text.ex = 0

\* The name one (source, key) of the company-name mapping supplies from a
\* payload that is neither an error nor a mock.
SuppliedName(raw_data, source, key) ==
    IF /\ source \in DOMAIN raw_data
       /\ NoError(raw_data[source])
       /\ ~raw_data[source].mock
    THEN Get(raw_data[source].fields, key, None)
    ELSE None

\* C29: in a finished enrichment in which a source that is neither an
\* error nor a mock supplies a company name, the name handed to the news
\* fetch is the company_name of the profile.
C29_NewsNameIsProfileName ==
    (/\ rad_pc = "done"
     /\ \E i \in DOMAIN _get_field_mappings.company_name :
            IsTruthy(SuppliedName(rad_raw_data, _get_field_mappings.company_name[i][1],
                                  _get_field_mappings.company_name[i][2])))
    => /\ "company_name" \in DOMAIN rad_normalized.profile
       /\ rad_normalized.profile.company_name.s = rad_gnews.company_name.s

\* The sources of the company-name mapping that supply a name from a
\* payload that is neither an error nor a mock.
NameSuppliers(raw_data) ==
    { _get_field_mappings.company_name[i][1] :
        i \in { j \in DOMAIN _get_field_mappings.company_name :
                  IsTruthy(SuppliedName(raw_data, _get_field_mappings.company_name[j][1],
                                        _get_field_mappings.company_name[j][2])) } }

\* C29, amended: the two names are equal in a finished enrichment where a
\* source that is neither an error nor a mock supplies a company name and
\* apollo and pdl_company do not both supply one.
C29_NewsNameIsProfileName_OneOrder ==
    (/\ rad_pc = "done"
     /\ NameSuppliers(rad_raw_data) # {}
     /\ ~({"apollo", "pdl_company"} \subseteq NameSuppliers(rad_raw_data)))
    => /\ "company_name" \in DOMAIN rad_normalized.profile
       /\ rad_normalized.profile.company_name.s = rad_gnews.company_name.s

\* An enrichment ended in which zoominfo and pdl supply names and apollo
\* does not: both orders take zoominfo's.
C29_Witness ==
    /\ rad_pc = "done"
    /\ {"zoominfo", "pdl"} \subseteq NameSuppliers(rad_raw_data)
    /\ "apollo" \notin NameSuppliers(rad_raw_data)
    /\ rad_gnews.company_name.src = "zoominfo"

\* The items of a list field of a profile, <<>> where it is absent or
\* empty.
ListItems(profile, key) ==
    IF IsTruthy(Get(profile, key, None)) THEN Get(profile, key, None).s ELSE <<>>

\* The tags of the profile give no result: no advanced or traditional
\* maturity and no AI, cloud or modern-technology keyword.
TagsGiveNoResult(profile) ==
    /\ \/ ListItems(profile, "company_tags") = <<>>
       \/ extract_tech_signals_from_tags(ListItems(profile, "company_tags")).maturity
              \notin {<<"a", "d", "v", "a", "n", "c", "e", "d">>, <<"t", "r", "a", "d", "i", "t", "i", "o", "n", "a", "l">>}
    /\ ~_search_themes(ListItems(profile, "company_tags"),
                       Keywords.AI_CLOUD_KEYWORDS \cup Keywords.MODERN_TECH_KEYWORDS)

\* The founding-year-and-industry rule that matches the profile: "modern"
\* for a technology company founded after 2015, "traditional" for another
\* company founded before 2000, <<>> where neither matches.
YearRule(profile) ==
    IF ~(IsTruthy(Get(profile, "founded_year", None))
         /\ Get(profile, "founded_year", None).t = "int")
    THEN <<>>
    ELSE IF /\ Get(profile, "founded_year", None).n > 2015
            /\ IsTruthy(Get(profile, "industry", None))
            /\ str_lower(Get(profile, "industry", None).s)
                   \in {<<"t", "e", "c", "h", "n", "o", "l", "o", "g", "y">>, <<"s", "o", "f", "t", "w", "a", "r", "e">>, <<"s", "a", "a", "s">>, <<"c", "l", "o", "u", "d">>}
    THEN <<"m", "o", "d", "e", "r", "n">>
    ELSE IF /\ Get(profile, "founded_year", None).n < 2000
            /\ ~(/\ IsTruthy(Get(profile, "industry", None))
                 /\ str_lower(Get(profile, "industry", None).s)
                        \in {<<"t", "e", "c", "h", "n", "o", "l", "o", "g", "y">>, <<"s", "o", "f", "t", "w", "a", "r", "e">>, <<"s", "a", "a", "s">>, <<"c", "l", "o", "u", "d">>})
    THEN <<"t", "r", "a", "d", "i", "t", "i", "o", "n", "a", "l">>
    ELSE <<>>

\* A news theme of the profile holds a transformation, AI or cloud keyword.
ThemesHit(profile) ==
    _search_themes(ListItems(profile, "news_themes"),
                   Keywords.TRANSFORMATION_KEYWORDS \cup Keywords.AI_CLOUD_KEYWORDS)

====
